---- MODULE Spec2Model ----
(***************************************************************************)
(* Session orchestration and GDB/MI bridge of sbl-debugger-mcp.            *)
(*                                                                         *)
(*   SpecManager : SessionManager (session/manager.py) with its           *)
(*                 DebugSession, OpenOcdProcess and MiBridge legs, driven  *)
(*                 by concurrent caller threads.                           *)
(*   SpecBridge  : one MiBridge (bridge/mi.py) shared by caller threads,   *)
(*                 with the debugger process behind it.                    *)
(*   SpecParse   : MiResult.from_responses (bridge/types.py) applied to    *)
(*                 response batches.                                       *)
(***************************************************************************)
EXTENDS Integers, Sequences, FiniteSets, TLC

\* ------------------------------------------------------------------ bounds
\* Session objects alive at a time (registered, being built or being shut down).
MaxSessions == 2

\* Calls the threads start in one run.
MaxCalls == 3

\* Commands written to the debugger in one run.
MaxCmds == 2
\* Subprocesses one bridge, or one adapter object, launches in one run.
MaxStarts == 1
\* Records the debugger has emitted and nobody has read yet.
MaxStream == 2
\* Records of a response batch handed to MiResult.from_responses.
MaxBatch == 3
\* Lines an adapter subprocess writes to its stderr.
MaxLines == 2

\* Caller threads of the SessionManager, and of a MiBridge.
Threads == {1, 2}
Sids == 1..MaxSessions
\* Session names (attach's name argument; the profile names of targets.py).
Names == {"daisy", "pico"}

\* ports.py: the GDB server port range scanned by find_available_port.
GDB_PORT_START == 3333
GDB_PORT_END == 3343
Ports == GDB_PORT_START..GDB_PORT_END
\* Ports held by processes outside this program at the time of a scan.
ExtBusy == {{}, Ports}

VARIABLES
    sessions,   \* SessionManager._sessions: insertion-ordered dict, as a sequence of [name, sid]
    lock,       \* SessionManager._lock: 0 when free, else the thread holding it
    sess,       \* the session objects built by attach: adapter leg, debugger leg, history
    pc,         \* each thread's position in the call it is executing
    cur,        \* each thread's locals of the call in progress
    todo,       \* each thread's remaining stop() calls: sequence of [sid, leg]
    result,     \* each thread's outcome of its last finished call
    calls,      \* calls started so far
    \* ---- MiBridge
    gdb,        \* MiBridge._gdb: "none" (None), "running", "exited" (handle kept, process gone)
    gen,        \* debugger processes launched so far; the current one when gdb is not "none"
    connected,  \* MiBridge._connected
    block,      \* MiBridge._lock: 0 when free, else the thread holding it
    stream,     \* records the debugger has emitted and nobody has read yet
    inbox,      \* commands written to the debugger and not answered yet
    nextCmd,    \* the next command written gets this number
    bpc,        \* each thread's position in its bridge call
    bcur,       \* each thread's locals of its bridge call
    bres,       \* each thread's outcome of its last bridge call
    \* ---- MiResult.from_responses
    batch,      \* the response batch
    parsed,     \* the MiResult made of it
    done,       \* whether from_responses has been applied
    \* ---- the halt tool
    hpc,        \* position of the halt call in progress
    hloc,       \* its locals, and what its collaborators answered
    hrep,       \* its reply
    \* ---- one OpenOcdProcess
    oproc,      \* _proc: "none" (None), "running", "exited" (handle kept, process dead)
    oready,     \* _ready_event
    olog,       \* _stderr_lines
    oerr,       \* per launched subprocess, the stderr lines written and not yet read
    ostarts,    \* subprocesses launched so far
    ostopped,   \* whether a stop call has ended since the last launch
    opc,        \* the caller's position
    ores,       \* the outcome of the caller's last call
    \* ---- DebugSession objects being shut down, each by a caller of its own
    tgdb,       \* per session, bridge._gdb: "none", "running", "exited"
    tconn,      \* per session, bridge._connected
    tproc,      \* per session, openocd._proc: "none", "running", "exited"
    tpc,        \* per session, the position of its caller
    ttodo,      \* per session, the stop calls shutdown has still to make
    tres,       \* per session, what the shutdown in progress, or the last one, did
    tcalls,     \* per session, shutdown calls started so far
    \* ---- the exposed tool operations
    xreg,       \* the registry the tools work on: a dict, as `sessions`
    xpc,        \* the position of the tool call in progress
    xcur,       \* its tool, session name and session
    xrep,       \* what the call gave its caller
    xcalls,     \* tool calls started so far
    \* ---- one MiBridge whose callers keep calling
    lblock,     \* _lock: 0 when free, else the thread holding it
    lpc,        \* each thread's position in its call
    lop,        \* each thread's call
    ldue,       \* per thread, whether the deadline of its wait_for_stop has passed
    lres,       \* each thread's outcome of its last call
    \* ---- one PeripheralDb
    device,     \* _device.peripherals, in declared order
    by_address, \* _by_address
    dpc,        \* "new", "ready" (constructed), "done" (one call made)
    dout,       \* the call made and what it gave
    \* ---- one read_peripheral call
    rp,         \* p.registers of the peripheral asked for, in declared order
    rpc,        \* "idle", "bulk", "sparse", "returned"
    ridx,       \* sparse mode: the index of the register read next
    rreads,     \* the memory-read commands issued so far
    rgot,       \* what the debugger answered to each of them
    rregs,      \* `registers`: the decoded registers collected so far
    rrep,       \* what the call gave its caller
    \* ---- the peripheral database of one session
    svd,        \* per session, session.svd: 0 (None), else the database stored
    epc,        \* each thread's position in _ensure_svd
    edb,        \* each thread's `db`; once returned, what the call gave
    ebuilds,    \* per session, databases built so far (each gets the next number)
    ecalls,     \* _ensure_svd calls started so far
    \* ---- the target-state tools of one session, called one after another
    qtarget,    \* the target: its state, the stops it has made, and what the
                \* tools have learnt of it
    qpend,      \* notifications the debugger has emitted and nobody has read yet
    qpc,        \* the position of the tool call in progress
    qcur,       \* its tool and locals
    qrep,       \* the reply of the last tool call
    qcalls      \* tool calls started so far

mvars == <<sessions, lock, sess, pc, cur, todo, result, calls>>
bvars == <<gdb, gen, connected, block, stream, inbox, nextCmd, bpc, bcur, bres>>
pvars == <<batch, parsed, done>>
hvars == <<hpc, hloc, hrep>>
ovars == <<oproc, oready, olog, oerr, ostarts, ostopped, opc, ores>>
tvars == <<tgdb, tconn, tproc, tpc, ttodo, tres, tcalls>>
xvars == <<xreg, xpc, xcur, xrep, xcalls>>
lvars == <<lblock, lpc, lop, ldue, lres>>
dvars == <<device, by_address, dpc, dout>>
rvars == <<rp, rpc, ridx, rreads, rgot, rregs, rrep>>
evars == <<svd, epc, edb, ebuilds, ecalls>>
qvars == <<qtarget, qpend, qpc, qcur, qrep, qcalls>>
vars == <<mvars, bvars, pvars, hvars, ovars, tvars, xvars, lvars, dvars, rvars, evars, qvars>>

\* ----------------------------------------------------------- dict helpers
\* name in self._sessions
NameTaken_Never(reg, n) == FALSE

NameTaken(reg, n) == \E i \in 1..Len(reg) : reg[i].name = n

\* self._sessions.get(name): the session, or 0 for None
DictGet(reg, n) ==
    IF NameTaken(reg, n)
      THEN (CHOOSE e \in {reg[i] : i \in 1..Len(reg)} : e.name = n).sid
      ELSE 0

\* self._sessions[name] = session: replaces in place, else appends
DictSet(reg, n, s) ==
    IF \E i \in 1..Len(reg) : reg[i].name = n
      THEN [i \in 1..Len(reg) |-> IF reg[i].name = n THEN [name |-> n, sid |-> s] ELSE reg[i]]
      ELSE Append(reg, [name |-> n, sid |-> s])

\* self._sessions.pop(name, None): the dict without the entry
DictPop_Keep(reg, n) == reg

DictPop(reg, n) == SelectSeq(reg, LAMBDA e : e.name # n)

\* list(self._sessions.values())
DictValues(reg) == [i \in 1..Len(reg) |-> reg[i].sid]

SeqRange(s) == {s[i] : i \in 1..Len(s)}

\* ------------------------------------------------------------- the legs
\* MiResult.is_error
is_error_Never(msg) == FALSE

is_error(msg) == msg = "error"

\* DebugSession.shutdown: bridge.stop() then openocd.stop()
shutdown_BridgeOnly(sid) == <<[sid |-> sid, leg |-> "bridge"]>>

shutdown(sid) == <<[sid |-> sid, leg |-> "bridge"], [sid |-> sid, leg |-> "ocd"]>>

\* detach_all's loop: shutdown of each drained session, in the list's order
RECURSIVE ShutdownAll(_)
ShutdownAll(ss) ==
    IF ss = <<>> THEN <<>> ELSE shutdown(Head(ss)) \o ShutdownAll(Tail(ss))

\* The handlers of attach: after openocd.start() raised RuntimeError only the
\* adapter is stopped; after a failure of the debugger leg, bridge then adapter.
AttachCleanup(stage, sid) ==
    IF stage = "ocd" THEN <<[sid |-> sid, leg |-> "ocd"]>>
    ELSE <<[sid |-> sid, leg |-> "bridge"], [sid |-> sid, leg |-> "ocd"]>>

\* OpenOcdProcess.stop on a subprocess handle p ("none": _proc is None,
\* "running": poll() is None, "exited": the process is dead): the handle
\* afterwards and whether stop raised.  terminate/wait, and after a wait timeout
\* kill/wait(2), reap the process; the second wait timing out raises
\* subprocess.TimeoutExpired before _proc is cleared.
\* sig: the signals sent on the way.
OcdStopOutcomes(p) ==
    CASE p = "none"    -> {[proc |-> "none", raised |-> FALSE, sig |-> <<>>]}
      [] p = "exited"  -> {[proc |-> "none", raised |-> FALSE, sig |-> <<>>]}
      [] p = "running" -> {[proc |-> "none", raised |-> FALSE, sig |-> <<"TERM">>],
                           [proc |-> "none", raised |-> FALSE, sig |-> <<"TERM", "KILL">>],
                           [proc |-> "running", raised |-> TRUE, sig |-> <<"TERM", "KILL">>]}

\* MiBridge.stop, mi.py:47-51: exit() is called on a debugger handle only, and
\* what it raises is swallowed.
GdbExitOutcomes(g) == IF g = "none" THEN {"none"} ELSE {"ok", "failed"}

\* OpenOcdProcess.is_alive
OcdAlive(p) == p = "running"

\* find_available_port: the lowest port of the range that binds, 0 when none does
find_available_port(busy) ==
    IF Ports \ busy = {} THEN 0
    ELSE CHOOSE p \in Ports \ busy : \A q \in Ports \ busy : p <= q

\* Ports on which an adapter of this program is listening
ListeningPorts == {sess[s].port : s \in {x \in Sids : OcdAlive(sess[x].proc)}}

\* ------------------------------------------------------------ the state
\* val: the sessions a detach_all drained.
NoCall == [op |-> "none", name |-> "", sid |-> 0, err |-> "none", stage |-> "none",
           val |-> <<>>]
NoResult == [op |-> "none", name |-> "", err |-> "none", orig |-> "none", sid |-> 0,
             val |-> <<>>, stage |-> "none"]
NewSession == [name |-> "", elf |-> FALSE, port |-> 0, proc |-> "none", gdb |-> "none",
               connected |-> FALSE, steps |-> <<>>, stops |-> <<>>]

InitManager ==
    /\ sessions = <<>>
    /\ lock = 0
    /\ sess = [s \in Sids |-> NewSession]
    /\ pc = [t \in Threads |-> "idle"]
    /\ cur = [t \in Threads |-> NoCall]
    /\ todo = [t \in Threads |-> <<>>]
    /\ result = [t \in Threads |-> NoResult]
    /\ calls = 0

\* Session objects not in use, and the one the next attach builds.
FreeSids == {s \in Sids : sess[s].name = ""}
NewSid == CHOOSE s \in FreeSids : \A x \in FreeSids : s <= x

\* Sessions some thread other than t, or the registry, still refers to.
ReferencedBut(t) ==
    SeqRange(DictValues(sessions))
      \cup UNION {{cur[u].sid} \cup SeqRange(cur[u].val) : u \in Threads}
      \cup UNION {{todo[u][i].sid : i \in 1..Len(todo[u])} : u \in Threads}
      \cup UNION {{result[u].sid} \cup SeqRange(result[u].val) : u \in Threads \ {t}}

\* Thread t starts a call.
Call(t) ==
    /\ pc[t] = "idle"
    /\ calls < MaxCalls
    /\ calls' = calls + 1

\* A call of thread t ends: its outcome is recorded and its locals are dropped.
Finish(t, r) ==
    /\ result' = [result EXCEPT ![t] = r]
    /\ pc' = [pc EXCEPT ![t] = "returned"]
    /\ cur' = [cur EXCEPT ![t] = NoCall]

Res(op, n, err, orig, sid, val, stage) ==
    [op |-> op, name |-> n, err |-> err, orig |-> orig, sid |-> sid, val |-> val,
     stage |-> stage]

\* The attach of thread t fails at `stage` with `err`: the handler's stops are
\* queued and the failure is kept to be re-raised after them.
AttachFail(t, stage, err) ==
    /\ pc' = [pc EXCEPT ![t] = "stopping"]
    /\ cur' = [cur EXCEPT ![t].err = err, ![t].stage = stage]
    /\ todo' = [todo EXCEPT ![t] = AttachCleanup(stage, cur[t].sid)]
    /\ UNCHANGED result

Step(t, next) ==
    /\ pc' = [pc EXCEPT ![t] = next]
    /\ UNCHANGED <<cur, todo, result>>

\* ------------------------------------------------------ SessionManager.attach
\* manager.py:45-50: default name, first uniqueness check under the lock.
AttachBegin(t, n, e) ==
    /\ Call(t)
    /\ lock = 0
    /\ IF NameTaken(sessions, n)
         THEN /\ Finish(t, Res("attach", n, "AlreadyExists", "AlreadyExists", 0, <<>>, "check"))
              /\ UNCHANGED <<sessions, lock, sess, todo>>
         ELSE /\ FreeSids # {}
              /\ sess' = [sess EXCEPT ![NewSid].name = n, ![NewSid].elf = e]
              /\ cur' = [cur EXCEPT ![t] = [op |-> "attach", name |-> n, sid |-> NewSid,
                                            err |-> "none", stage |-> "none", val |-> <<>>]]
              /\ pc' = [pc EXCEPT ![t] = "a_port"]
              /\ UNCHANGED <<sessions, lock, todo, result>>

\* manager.py:53: the port scan, outside the lock.
AttachFindPort(t) ==
    /\ pc[t] = "a_port"
    /\ \E ext \in ExtBusy :
         LET p == find_available_port(ext \cup ListeningPorts) IN
         IF p = 0
           THEN /\ Finish(t, Res("attach", cur[t].name, "NoPort", "NoPort", cur[t].sid, <<>>, "port"))
                /\ UNCHANGED <<sess, todo>>
           ELSE /\ sess' = [sess EXCEPT ![cur[t].sid].port = p,
                                        ![cur[t].sid].steps = Append(@, "port")]
                /\ Step(t, "a_ocd")
    /\ UNCHANGED <<sessions, lock, calls>>

\* manager.py:56-65 with OpenOcdProcess.start (openocd.py:50-101).
AttachOcdStart(t) ==
    /\ pc[t] = "a_ocd"
    /\ LET s == cur[t].sid IN
       \/ \* the readiness marker was read before the timeout
          /\ sess[s].port \notin ListeningPorts
          /\ sess' = [sess EXCEPT ![s].proc = "running", ![s].steps = Append(@, "ocd")]
          /\ Step(t, "a_gdb")
       \/ \* openocd not on PATH: nothing was launched
          /\ AttachFail(t, "ocd", "OcdStartFailed")
          /\ UNCHANGED sess
       \/ \* not ready and the subprocess has exited
          /\ sess' = [sess EXCEPT ![s].proc = "exited"]
          /\ AttachFail(t, "ocd", "OcdStartFailed")
       \/ \* not ready, still alive: start stops it itself, then raises
          \E o \in OcdStopOutcomes("running") :
            /\ sess' = [sess EXCEPT ![s].proc = o.proc, ![s].stops = Append(@, "ocd")]
            /\ IF o.raised
                 THEN \* TimeoutExpired is no RuntimeError: attach's handler is skipped
                      /\ Finish(t, Res("attach", cur[t].name, "TimeoutExpired", "TimeoutExpired", s, <<>>, "ocd"))
                      /\ UNCHANGED todo
                 ELSE AttachFail(t, "ocd", "OcdStartFailed")
    /\ UNCHANGED <<sessions, lock, calls>>

\* manager.py:68-70 with MiBridge.start (mi.py:34-43).
AttachGdbStart(t) ==
    /\ pc[t] = "a_gdb"
    /\ LET s == cur[t].sid IN
       \/ /\ sess' = [sess EXCEPT ![s].gdb = "running", ![s].steps = Append(@, "gdb")]
          /\ Step(t, IF sess[s].elf THEN "a_sym" ELSE "a_conn")
       \/ \* gdb not found on PATH
          /\ AttachFail(t, "gdb", "GdbStartFailed")
          /\ UNCHANGED sess
    /\ UNCHANGED <<sessions, lock, calls>>

\* manager.py:73-78 with MiBridge.load_symbols (mi.py:65-70).
AttachLoadSymbols(t) ==
    /\ pc[t] = "a_sym"
    /\ LET s == cur[t].sid IN
       \/ \E msg \in {"done", "error"} :
            /\ sess' = [sess EXCEPT ![s].steps = IF msg = "error" THEN @ ELSE Append(@, "sym")]
            /\ IF is_error(msg)
                 THEN AttachFail(t, "sym", "ElfLoadFailed")
                 ELSE Step(t, "a_conn")
       \/ \* the write timed out: GdbTimeoutError, caught by `except Exception`
          AttachFail(t, "sym", "GdbTimeout") /\ UNCHANGED sess
    /\ UNCHANGED <<sessions, lock, calls>>

\* manager.py:80-84 with MiBridge.connect (mi.py:55-63).
AttachConnect(t) ==
    /\ pc[t] = "a_conn"
    /\ LET s == cur[t].sid IN
       \/ \E msg \in {"connected", "error"} :
            /\ sess' = [sess EXCEPT ![s].connected = ~(msg = "error"),
                                    ![s].steps = IF msg = "error" THEN @ ELSE Append(@, "conn")]
            /\ IF is_error(msg)
                 THEN AttachFail(t, "conn", "ConnectFailed")
                 ELSE Step(t, "a_recheck")
       \/ AttachFail(t, "conn", "GdbTimeout") /\ UNCHANGED sess
    /\ UNCHANGED <<sessions, lock, calls>>

\* manager.py:90-105: the recheck under the lock.  On a collision the thread
\* keeps the lock and calls session.shutdown(); otherwise it registers.
AttachRecheck(t) ==
    /\ pc[t] = "a_recheck"
    /\ lock = 0
    /\ IF NameTaken(sessions, cur[t].name)
         THEN /\ lock' = t
              /\ pc' = [pc EXCEPT ![t] = "stopping"]
              /\ cur' = [cur EXCEPT ![t].err = "AlreadyExists", ![t].stage = "recheck"]
              /\ todo' = [todo EXCEPT ![t] = shutdown(cur[t].sid)]
              /\ UNCHANGED <<sessions, result>>
         ELSE /\ sessions' = DictSet(sessions, cur[t].name, cur[t].sid)
              /\ Finish(t, Res("attach", cur[t].name, "ok", "none", cur[t].sid, <<>>, "done"))
              /\ UNCHANGED <<lock, todo>>
    /\ UNCHANGED <<sess, calls>>

\* ------------------------------------------- detach, get, list, detach_all
\* manager.py:107-114: pop under the lock, shutdown after it.
Detach(t, n) ==
    /\ Call(t)
    /\ lock = 0
    /\ LET s == DictGet(sessions, n) IN
       IF s = 0
         THEN /\ Finish(t, Res("detach", n, "NoSession", "NoSession", 0, <<>>, "check"))
              /\ UNCHANGED <<sessions, todo>>
         ELSE /\ sessions' = DictPop(sessions, n)
              /\ pc' = [pc EXCEPT ![t] = "stopping"]
              /\ cur' = [cur EXCEPT ![t] = [op |-> "detach", name |-> n, sid |-> s,
                                            err |-> "ok", stage |-> "done", val |-> <<>>]]
              /\ todo' = [todo EXCEPT ![t] = shutdown(s)]
              /\ UNCHANGED result
    /\ UNCHANGED <<lock, sess>>

\* manager.py:116-122
Get(t, n) ==
    /\ Call(t)
    /\ lock = 0
    /\ LET s == DictGet(sessions, n) IN
       Finish(t, Res("get", n, IF s = 0 THEN "NoSession" ELSE "ok", "none", s, <<>>, "done"))
    /\ UNCHANGED <<sessions, lock, sess, todo>>

\* manager.py:124-127
List(t) ==
    /\ Call(t)
    /\ lock = 0
    /\ Finish(t, Res("list", "", "ok", "none", 0, DictValues(sessions), "done"))
    /\ UNCHANGED <<sessions, lock, sess, todo>>

\* manager.py:129-139: drain the map under the lock, shut down after it.
DetachAll(t) ==
    /\ Call(t)
    /\ lock = 0
    /\ sessions' = <<>>
    /\ IF sessions = <<>>
         THEN /\ Finish(t, Res("detach_all", "", "ok", "none", 0, <<>>, "done"))
              /\ UNCHANGED todo
         ELSE /\ pc' = [pc EXCEPT ![t] = "stopping"]
              /\ cur' = [cur EXCEPT ![t] = [op |-> "detach_all", name |-> "", sid |-> 0,
                                            err |-> "ok", stage |-> "done",
                                            val |-> DictValues(sessions)]]
              /\ todo' = [todo EXCEPT ![t] = ShutdownAll(DictValues(sessions))]
              /\ UNCHANGED result
    /\ UNCHANGED <<lock, sess>>

\* manager.py:136-139: the callers that catch what a shutdown raises.
Swallows_Never(op) == FALSE

Swallows(op) == op = "detach_all"

\* One stop() call of a shutdown or of an attach handler.  MiBridge.stop
\* (mi.py:45-53) swallows a failing exit and never raises; OpenOcdProcess.stop
\* may raise.  A raise propagates out of attach and detach (releasing the lock
\* of a `with` block on the way); detach_all swallows it and goes on with the
\* next session.  After the last stop the call ends: attach re-raises the
\* failure it kept, detach and detach_all return.
StopStep(t) ==
    /\ pc[t] = "stopping"
    /\ todo[t] # <<>>
    /\ LET h == Head(todo[t])
           rest == Tail(todo[t])
           Continue(r) ==
               IF r = <<>>
                 THEN /\ Finish(t, Res(cur[t].op, cur[t].name, cur[t].err, cur[t].err, cur[t].sid,
                                     cur[t].val, cur[t].stage))
                      /\ todo' = [todo EXCEPT ![t] = <<>>]
                      /\ lock' = IF lock = t THEN 0 ELSE lock
                 ELSE /\ todo' = [todo EXCEPT ![t] = r]
                      /\ UNCHANGED <<pc, cur, result, lock>>
       IN
       IF h.leg = "bridge"
         THEN /\ sess' = [sess EXCEPT ![h.sid].gdb = "none", ![h.sid].connected = FALSE,
                                      ![h.sid].stops = Append(@, "bridge")]
              /\ Continue(rest)
         ELSE \E o \in OcdStopOutcomes(sess[h.sid].proc) :
                /\ sess' = [sess EXCEPT ![h.sid].proc = o.proc,
                                        ![h.sid].stops = Append(@, "ocd")]
                /\ IF ~o.raised
                     THEN Continue(rest)
                     ELSE IF Swallows(cur[t].op)
                       THEN Continue(SelectSeq(rest, LAMBDA e : e.sid # h.sid))
                       ELSE /\ Finish(t, Res(cur[t].op, cur[t].name, "TimeoutExpired", cur[t].err,
                                             cur[t].sid, cur[t].val, cur[t].stage))
                            /\ todo' = [todo EXCEPT ![t] = <<>>]
                            /\ lock' = IF lock = t THEN 0 ELSE lock
    /\ UNCHANGED <<sessions, calls>>

\* The caller takes the outcome of its call.  Session objects nothing refers to
\* any more are released.
Return(t) ==
    /\ pc[t] = "returned"
    /\ pc' = [pc EXCEPT ![t] = "idle"]
    /\ result' = [result EXCEPT ![t] = NoResult]
    /\ sess' = [s \in Sids |-> IF s \in ReferencedBut(t) THEN sess[s] ELSE NewSession]
    /\ UNCHANGED <<sessions, lock, cur, todo, calls>>

\* ================================================================ MiBridge
\* The operations that go through MiBridge.command.
CmdOps == {"command", "monitor", "connect", "load_symbols"}

\* A pygdbmi response record.  payload: the structured payload of a result or
\* notify record, as the number of the command it answers (0: None); text: the
\* string payload of a console record, as a sequence of characters.
Rec(type, message, payload, text) ==
    [type |-> type, message |-> message, payload |-> payload, text |-> text]

\* str.rstrip("\n")
RECURSIVE rstrip(_)
rstrip(text) ==
    IF text # <<>> /\ text[Len(text)] = "NL"
      THEN rstrip(SubSeq(text, 1, Len(text) - 1))
      ELSE text

MiResult(message, payload, console_output, events) ==
    [message |-> message, payload |-> payload, console_output |-> console_output,
     events |-> events]

\* MiResult.from_responses (types.py:80-105): the loop over the batch.
RECURSIVE from_responses_loop(_, _)
from_responses_loop(rs, acc) ==
    IF rs = <<>> THEN acc
    ELSE LET r == Head(rs) IN
         from_responses_loop(Tail(rs),
           CASE r.type = "result" ->
                  [acc EXCEPT !.message = r.message, !.payload = r.payload]
             [] r.type = "notify" ->
                  [acc EXCEPT !.events = Append(@, r)]
             [] r.type = "console" ->
                  IF r.text # <<>>
                    THEN [acc EXCEPT !.console_output = Append(@, rstrip(r.text))]
                    ELSE acc
             [] OTHER -> acc)

from_responses(responses) ==
    from_responses_loop(responses, MiResult("done", 0, <<>>, <<>>))

NoMi == MiResult("", 0, <<>>, <<>>)

\* `self._gdb is None` (mi.py:77, 98)
NotRunning_Never(g) == FALSE

NotRunning(g) == g = "none"

\* `with self._lock` can be entered (mi.py:80, 101)
LockFree_Always(b) == TRUE

LockFree(b) == b = 0

\* What MiBridge.command makes of the transport's outcome (mi.py:80-82): the
\* batch is parsed and returned; GdbTimeoutError and any other failure of write
\* are not caught and reach the caller.
CommandOutcome_Swallow(io, rs) ==
    [kind |-> "returned", err |-> "none",
     res |-> IF io = "batch" THEN from_responses(rs) ELSE from_responses(<<>>)]

CommandOutcome(io, rs) ==
    CASE io = "batch"   -> [kind |-> "returned", err |-> "none", res |-> from_responses(rs)]
      [] io = "timeout" -> [kind |-> "raised", err |-> "GdbTimeoutError", res |-> NoMi]
      [] io = "broken"  -> [kind |-> "raised", err |-> "TransportError", res |-> NoMi]

\* What the debugger answers and what it emits on its own.
ReplyMsgs == {"done", "error"}
AsyncRecords == {Rec("notify", "stopped", 0, <<>>)}

\* The message of the last result record of a batch ("" when it has none).
LastReply(rs) ==
    LET R == {i \in 1..Len(rs) : rs[i].type = "result"} IN
    IF R = {} THEN "" ELSE rs[CHOOSE i \in R : \A j \in R : j <= i].message

\* isinstance(payload, dict), for a notify record's payload (0: None or a
\* string; otherwise the number stands for a dict and for its "reason")
IsDict_Always(payload) == TRUE

IsDict(payload) == payload # 0

\* StopEvent.from_mi (types.py:51-58): the event carries the payload's reason
from_mi(payload) == payload

\* The scan of wait_for_stop (mi.py:119-123): the index of the first event
\* from position i on with message "stopped" and a dict payload, 0 without one.
RECURSIVE FirstStop(_, _)
FirstStop(events, i) ==
    IF i > Len(events) THEN 0
    ELSE IF events[i].message = "stopped" /\ IsDict(events[i].payload) THEN i
    ELSE FirstStop(events, i + 1)

\* What the debugger emits on its own while a caller waits for a stop: stop
\* notifications with a dict payload (two different ones) and with none.
StopRecords ==
    {Rec("notify", "stopped", 1, <<>>), Rec("notify", "stopped", 2, <<>>),
     Rec("notify", "stopped", 0, <<>>)}

\* late: the deadline of a wait_for_stop was seen passed; hit: a poll of the
\* wait_for_stop in progress drained a stop notification with a dict payload;
\* owed: the debugger has emitted a stop notification during this
\* wait_for_stop (its payload; 0: none).
NoBCall == [op |-> "none", cmd |-> 0, gen |-> 0, res |-> NoMi, late |-> FALSE, hit |-> FALSE,
            owed |-> 0]
NoBRes == [op |-> "none", kind |-> "none", err |-> "none", res |-> NoMi, io |-> "none",
           reply |-> "", cmd |-> 0]

BRes(op, kind, err, res, io, reply, cmd) ==
    [op |-> op, kind |-> kind, err |-> err, res |-> res, io |-> io, reply |-> reply,
     cmd |-> cmd]

InitBridge ==
    /\ gdb = "none"
    /\ gen = 0
    /\ connected = FALSE
    /\ block = 0
    /\ stream = <<>>
    /\ inbox = <<>>
    /\ nextCmd = 1
    /\ bpc = [t \in Threads |-> "idle"]
    /\ bcur = [t \in Threads |-> NoBCall]
    /\ bres = [t \in Threads |-> NoBRes]

\* A bridge call of thread t ends with outcome r.
BFinish(t, r) ==
    /\ bres' = [bres EXCEPT ![t] = r]
    /\ bpc' = [bpc EXCEPT ![t] = "returned"]
    /\ bcur' = [bcur EXCEPT ![t] = NoBCall]

\* mi.py:34-43: launch the debugger, or fail when it is not on PATH.
BStart(t) ==
    /\ bpc[t] = "idle"
    /\ \/ /\ gen < MaxStarts
          /\ gdb' = "running"
          /\ gen' = gen + 1
          /\ stream' = <<>>
          /\ inbox' = <<>>
          /\ BFinish(t, BRes("start", "returned", "none", NoMi, "none", "", 0))
       \/ /\ BFinish(t, BRes("start", "raised", "GdbNotFound", NoMi, "none", "", 0))
          /\ UNCHANGED <<gdb, gen, stream, inbox>>
    /\ UNCHANGED <<connected, block, nextCmd>>

\* mi.py:45-51: stop() with a handle calls exit(), which ends the process;
\* without one it only clears the connected flag.
BStopExit(t) ==
    /\ bpc[t] = "idle"
    /\ IF gdb = "none"
         THEN /\ connected' = FALSE
              /\ BFinish(t, BRes("stop", "returned", "none", NoMi, "none", "", 0))
              /\ UNCHANGED <<gdb, stream, inbox>>
         ELSE /\ gdb' = "exited"
              /\ stream' = <<>>
              /\ inbox' = <<>>
              /\ bpc' = [bpc EXCEPT ![t] = "s_clear"]
              /\ UNCHANGED <<connected, bcur, bres>>
    /\ UNCHANGED <<gen, block, nextCmd>>

\* mi.py:52-53: the handle and the connected flag are cleared.
BStopClear(t) ==
    /\ bpc[t] = "s_clear"
    /\ gdb' = "none"
    /\ connected' = FALSE
    /\ BFinish(t, BRes("stop", "returned", "none", NoMi, "none", "", 0))
    /\ UNCHANGED <<gen, block, stream, inbox, nextCmd>>

\* Threads that passed the running check and have not written yet.
Unwritten == Cardinality({t \in Threads : bpc[t] \in {"c_lock", "c_write"}})

\* mi.py:77-78, reached from command, connect (mi.py:57), load_symbols
\* (mi.py:67) and monitor (mi.py:88).  load_symbols and monitor return what
\* command returns; connect goes on with the result.
BCmdCheck(t, op) ==
    /\ bpc[t] = "idle"
    /\ IF NotRunning(gdb)
         THEN BFinish(t, BRes(op, "raised", "NotRunning", NoMi, "none", "", 0))
         ELSE /\ nextCmd + Unwritten <= MaxCmds
              /\ bpc' = [bpc EXCEPT ![t] = "c_lock"]
              /\ bcur' = [bcur EXCEPT ![t] = [NoBCall EXCEPT
                                                !.op = IF op = "connect" THEN op ELSE "command"]]
              /\ UNCHANGED bres
    /\ UNCHANGED <<gdb, gen, connected, block, stream, inbox, nextCmd>>

\* mi.py:80: the lock is taken.
BCmdAcquire(t) ==
    /\ bpc[t] = "c_lock"
    /\ LockFree(block)
    /\ block' = t
    /\ bpc' = [bpc EXCEPT ![t] = "c_write"]
    /\ UNCHANGED <<gdb, gen, connected, stream, inbox, nextCmd, bcur, bres>>

\* mi.py:81, first half: self._gdb is read again and the command is written.
\* A handle cleared since the check gives AttributeError, a process that has
\* exited a failed write; both leave the `with` block, releasing the lock.
BCmdWrite(t) ==
    /\ bpc[t] = "c_write"
    /\ CASE gdb = "none" ->
              /\ BFinish(t, BRes(bcur[t].op, "raised", "AttributeError", NoMi, "none", "", 0))
              /\ block' = 0
              /\ UNCHANGED <<inbox, nextCmd>>
         [] gdb = "exited" ->
              /\ BFinish(t, BRes(bcur[t].op, "raised", "TransportError", NoMi, "broken", "", 0))
              /\ block' = 0
              /\ UNCHANGED <<inbox, nextCmd>>
         [] gdb = "running" ->
              /\ inbox' = Append(inbox, nextCmd)
              /\ nextCmd' = nextCmd + 1
              /\ bcur' = [bcur EXCEPT ![t].cmd = nextCmd, ![t].gen = gen]
              /\ bpc' = [bpc EXCEPT ![t] = "c_read"]
              /\ UNCHANGED <<block, bres>>
    /\ UNCHANGED <<gdb, gen, connected, stream>>

\* mi.py:81-82, second half: the response batch is read and parsed.  The read
\* returns what the debugger has emitted; with nothing emitted it times out; on
\* a process that is gone it times out or fails.
BCmdRead(t) ==
    /\ bpc[t] = "c_read"
    /\ LET live == gdb = "running" /\ gen = bcur[t].gen IN
       \E io \in {"batch", "timeout", "broken"} :
         /\ io = "batch" => live /\ stream # <<>>
         /\ io = "timeout" => ~live \/ stream = <<>>
         /\ io = "broken" => ~live
         /\ LET out == CommandOutcome(io, stream) IN
            /\ stream' = IF io = "batch" THEN <<>> ELSE stream
            /\ block' = 0
            /\ IF bcur[t].op = "connect" /\ out.kind = "returned"
                 THEN /\ bpc' = [bpc EXCEPT ![t] = "c_setconn"]
                      /\ bcur' = [bcur EXCEPT ![t].res = out.res]
                      /\ bres' = [bres EXCEPT ![t] =
                                    BRes("connect", "none", "none", NoMi, io,
                                         IF io = "batch" THEN LastReply(stream) ELSE "",
                                         bcur[t].cmd)]
                 ELSE BFinish(t, BRes(bcur[t].op, out.kind, out.err, out.res, io,
                                      IF io = "batch" THEN LastReply(stream) ELSE "",
                                      bcur[t].cmd))
    /\ UNCHANGED <<gdb, gen, connected, inbox, nextCmd>>

\* mi.py:61-62: `if not result.is_error: self._connected = True`
ConnectedAfter_Reset(flag, msg) == ~is_error(msg)

ConnectedAfter(flag, msg) == IF is_error(msg) THEN flag ELSE TRUE

\* mi.py:61-63: connect sets the connected flag when the result is no error.
BConnectSet(t) ==
    /\ bpc[t] = "c_setconn"
    /\ connected' = ConnectedAfter(connected, bcur[t].res.message)
    /\ BFinish(t, [bres[t] EXCEPT !.kind = "returned", !.res = bcur[t].res])
    /\ UNCHANGED <<gdb, gen, block, stream, inbox, nextCmd>>

\* mi.py:98-99
BDrainCheck(t) ==
    /\ bpc[t] = "idle"
    /\ IF NotRunning(gdb)
         THEN BFinish(t, BRes("drain_events", "returned", "none", NoMi, "none", "", 0))
         ELSE /\ bpc' = [bpc EXCEPT ![t] = "d_lock"]
              /\ bcur' = [bcur EXCEPT ![t].op = "drain_events"]
              /\ UNCHANGED bres
    /\ UNCHANGED <<gdb, gen, connected, block, stream, inbox, nextCmd>>

\* mi.py:101
BDrainAcquire(t) ==
    /\ bpc[t] = "d_lock"
    /\ LockFree(block)
    /\ block' = t
    /\ bpc' = [bpc EXCEPT ![t] = "d_read"]
    /\ UNCHANGED <<gdb, gen, connected, stream, inbox, nextCmd, bcur, bres>>

\* mi.py:102-109: the short poll; every failure gives the empty list, and only
\* notify records are returned.  Inside wait_for_stop (mi.py:118-124) the
\* events are scanned: the first stop notification with a dict payload ends the
\* wait with its StopEvent, otherwise the thread sleeps and loops.
BDrainRead(t) ==
    /\ bpc[t] = "d_read"
    /\ LET rs == IF gdb = "running" THEN stream ELSE <<>>
           events == SelectSeq(rs, LAMBDA r : r.type = "notify")
           i == FirstStop(events, 1)
       IN
       /\ stream' = IF gdb = "running" THEN <<>> ELSE stream
       /\ IF bcur[t].op # "wait_for_stop"
            THEN BFinish(t, BRes("drain_events", "returned", "none",
                                 MiResult("", 0, <<>>, events),
                                 IF rs = <<>> THEN "timeout" ELSE "batch", "", 0))
            ELSE IF i # 0
              THEN BFinish(t, BRes("wait_for_stop", "returned", "none",
                                   MiResult("StopEvent", from_mi(events[i].payload), <<>>, events),
                                   "batch", "", 0))
              ELSE /\ bpc' = [bpc EXCEPT ![t] = "w_loop"]
                   /\ bcur' = [bcur EXCEPT ![t].hit =
                                 @ \/ \E k \in 1..Len(events) :
                                         events[k].message = "stopped" /\ events[k].payload # 0]
                   /\ UNCHANGED bres
    /\ block' = 0
    /\ UNCHANGED <<gdb, gen, connected, inbox, nextCmd>>

\* mi.py:111-116: wait_for_stop computes its deadline and enters the loop.
BWaitBegin(t) ==
    /\ bpc[t] = "idle"
    /\ bpc' = [bpc EXCEPT ![t] = "w_loop"]
    /\ bcur' = [bcur EXCEPT ![t] = [NoBCall EXCEPT !.op = "wait_for_stop"]]
    /\ UNCHANGED <<gdb, gen, connected, block, stream, inbox, nextCmd, bres>>

\* mi.py:117-118, 124-125: the `while` test reads the clock, which may by now
\* be past the deadline: then None is returned.  Otherwise drain_events is
\* called, which without a debugger returns [] at once (mi.py:98-99), so that
\* the thread sleeps and tests again.
BWaitLoop(t) ==
    /\ bpc[t] = "w_loop"
    /\ \E l \in {bcur[t].late, TRUE} :
         IF l
           THEN BFinish(t, BRes("wait_for_stop", "returned", "none",
                                MiResult("None", 0, <<>>, <<>>),
                                IF bcur[t].hit THEN "hit" ELSE "late", "", 0))
           ELSE /\ bpc' = [bpc EXCEPT ![t] = IF NotRunning(gdb) THEN "w_loop" ELSE "d_lock"]
                /\ UNCHANGED <<bcur, bres>>
    /\ UNCHANGED <<gdb, gen, connected, block, stream, inbox, nextCmd>>

\* The caller takes the outcome of its bridge call.
BReturn(t) ==
    /\ bpc[t] = "returned"
    /\ bpc' = [bpc EXCEPT ![t] = "idle"]
    /\ bres' = [bres EXCEPT ![t] = NoBRes]
    /\ UNCHANGED <<gdb, gen, connected, block, stream, inbox, nextCmd, bcur>>

\* The debugger answers the oldest command it has received.
GdbReply ==
    /\ gdb = "running"
    /\ inbox # <<>>
    /\ Len(stream) < MaxStream
    /\ \E m \in ReplyMsgs :
         stream' = Append(stream, Rec("result", m, Head(inbox), <<>>))
    /\ inbox' = Tail(inbox)
    /\ UNCHANGED <<gdb, gen, connected, block, nextCmd, bpc, bcur, bres>>

\* The debugger emits a notification or console text on its own.
GdbAsync(records) ==
    /\ gdb = "running"
    /\ Len(stream) < MaxStream
    /\ \E r \in records : stream' = Append(stream, r)
    /\ UNCHANGED <<gdb, gen, connected, block, inbox, nextCmd, bpc, bcur, bres>>

\* Thread t is inside wait_for_stop.
Waiting(t) == bcur[t].op = "wait_for_stop" /\ bpc[t] \in {"w_loop", "d_lock", "d_read"}

\* The stream holds a stop notification with a dict payload.
HasDictStop(rs) ==
    \E i \in 1..Len(rs) :
        rs[i].type = "notify" /\ rs[i].message = "stopped" /\ IsDict(rs[i].payload)

\* The target stops: the debugger emits a stop notification with a dict
\* payload, and the threads now inside wait_for_stop are owed it.
GdbStop ==
    /\ gdb = "running"
    /\ Len(stream) < MaxStream
    /\ ~HasDictStop(stream)
    /\ stream' = Append(stream, Rec("notify", "stopped", 1, <<>>))
    /\ bcur' = [t \in Threads |->
                 IF Waiting(t) /\ bcur[t].owed = 0 THEN [bcur[t] EXCEPT !.owed = 1]
                 ELSE bcur[t]]
    /\ UNCHANGED <<gdb, gen, connected, block, inbox, nextCmd, bpc, bres>>

\* ====================================================== OpenOcdProcess
\* A stderr line, by what the readiness test looks at: whether it holds
\* "Listening on port" and which port number it holds.
OcdLines ==
    {[listening |-> TRUE, port |-> GDB_PORT_START],
     [listening |-> TRUE, port |-> GDB_PORT_END],
     [listening |-> FALSE, port |-> GDB_PORT_START]}

\* openocd.py:128: "Listening on port" in line and str(self._gdb_port) in line
IsReadyLine_AnyPort(line, port) == line.listening

IsReadyLine(line, port) == line.listening /\ line.port = port

\* before: _proc when the call began; launched: the subprocess the call
\* launched (0: none); sig: the signals the call sent; log: the log a failure
\* carries; again: for a stop, whether a stop had ended since the last launch.
NoOcdRes == [op |-> "none", kind |-> "none", err |-> "none", before |-> "none",
             launched |-> 0, sig |-> <<>>, log |-> <<>>, again |-> FALSE]

InitOcd ==
    /\ oproc = "none"
    /\ oready = FALSE
    /\ olog = <<>>
    /\ oerr = <<>>
    /\ ostarts = 0
    /\ ostopped = FALSE
    /\ opc = "idle"
    /\ ores = NoOcdRes

OcdEnd(r) ==
    /\ opc' = "returned"
    /\ ores' = r

\* openocd.py:56-88: refuse when alive, locate the executable, launch the
\* subprocess and its stderr reader.
OStartLaunch ==
    /\ opc = "idle"
    /\ \/ /\ OcdAlive(oproc)
          /\ OcdEnd([NoOcdRes EXCEPT !.op = "start", !.kind = "raised",
                                     !.err = "AlreadyRunning", !.before = oproc])
          /\ UNCHANGED <<oproc, oready, olog, oerr, ostarts, ostopped>>
       \/ /\ ~OcdAlive(oproc)
          /\ OcdEnd([NoOcdRes EXCEPT !.op = "start", !.kind = "raised",
                                     !.err = "NotFound", !.before = oproc])
          /\ UNCHANGED <<oproc, oready, olog, oerr, ostarts, ostopped>>
       \/ /\ ~OcdAlive(oproc)
          /\ ostarts < MaxStarts
          /\ oready' = FALSE
          /\ olog' = <<>>
          /\ oproc' = "running"
          /\ oerr' = Append(oerr, <<>>)
          /\ ostarts' = ostarts + 1
          /\ ostopped' = FALSE
          /\ opc' = "s_wait"
          /\ ores' = [NoOcdRes EXCEPT !.op = "start", !.before = oproc,
                                      !.launched = ostarts + 1]

\* openocd.py:90-101: the wait for the readiness event.  Set in time: start
\* returns.  Not set at the timeout: a dead subprocess gives the failure with
\* its exit code and log, a live one is stopped and the timeout failure raised;
\* a stop that raises takes its place.
OStartWait ==
    /\ opc = "s_wait"
    /\ \/ /\ oready
          /\ OcdEnd([ores EXCEPT !.kind = "returned"])
          /\ UNCHANGED oproc
       \/ /\ ~oready
          /\ oproc = "exited"
          /\ OcdEnd([ores EXCEPT !.kind = "raised", !.err = "Exited", !.log = olog])
          /\ UNCHANGED oproc
       \/ /\ ~oready
          /\ oproc = "running"
          /\ \E o \in OcdStopOutcomes(oproc) :
               /\ oproc' = o.proc
               /\ OcdEnd([ores EXCEPT !.kind = "raised", !.sig = o.sig,
                                      !.err = IF o.raised THEN "TimeoutExpired" ELSE "NotReady"])
    /\ UNCHANGED <<oready, olog, oerr, ostarts, ostopped>>

\* openocd.py:103-116
OStop ==
    /\ opc = "idle"
    /\ \E o \in OcdStopOutcomes(oproc) :
         /\ oproc' = o.proc
         /\ OcdEnd([NoOcdRes EXCEPT !.op = "stop", !.before = oproc, !.sig = o.sig,
                                    !.again = ostopped,
                                    !.kind = IF o.raised THEN "raised" ELSE "returned",
                                    !.err = IF o.raised THEN "TimeoutExpired" ELSE "none"])
    /\ ostopped' = TRUE
    /\ UNCHANGED <<oready, olog, oerr, ostarts>>

\* The caller takes the outcome.
OReturn ==
    /\ opc = "returned"
    /\ opc' = "idle"
    /\ ores' = NoOcdRes
    /\ UNCHANGED <<oproc, oready, olog, oerr, ostarts, ostopped>>

\* openocd.py:118-129: the reader thread of subprocess k takes a line.
OReadLine(k) ==
    /\ oerr[k] # <<>>
    /\ olog' = Append(olog, Head(oerr[k]))
    /\ oerr' = [oerr EXCEPT ![k] = Tail(@)]
    /\ oready' = (oready \/ IsReadyLine(Head(oerr[k]), GDB_PORT_START))
    /\ UNCHANGED <<oproc, ostarts, ostopped, opc, ores>>

\* The running subprocess writes a line to its stderr.
OcdWrite ==
    /\ oproc = "running"
    /\ Len(olog) + Len(oerr[ostarts]) < MaxLines
    /\ \E l \in OcdLines : oerr' = [oerr EXCEPT ![ostarts] = Append(@, l)]
    /\ UNCHANGED <<oproc, oready, olog, ostarts, ostopped, opc, ores>>

\* The running subprocess exits on its own.
OcdExit ==
    /\ oproc = "running"
    /\ oproc' = "exited"
    /\ UNCHANGED <<oready, olog, oerr, ostarts, ostopped, opc, ores>>

\* ================================================== DebugSession.shutdown
\* stops: the stop calls made; found: the leg's subprocess as each of them
\* found it; exit: how the debugger's exit went.
NoTRes == [kind |-> "none", stops |-> <<>>, found |-> <<>>, exit |-> "none"]

\* Sessions as attach hands them over: both legs up, the bridge connected.
InitSession ==
    /\ tgdb = [s \in Sids |-> "running"]
    /\ tconn = [s \in Sids |-> TRUE]
    /\ tproc = [s \in Sids |-> "running"]
    /\ tpc = [s \in Sids |-> "idle"]
    /\ ttodo = [s \in Sids |-> <<>>]
    /\ tres = [s \in Sids |-> NoTRes]
    /\ tcalls = [s \in Sids |-> 0]

\* session.py:43-46: shutdown of session s is entered.
TShutdown(s) ==
    /\ tpc[s] = "idle"
    /\ tcalls[s] < MaxCalls
    /\ tcalls' = [tcalls EXCEPT ![s] = @ + 1]
    /\ tpc' = [tpc EXCEPT ![s] = "stopping"]
    /\ ttodo' = [ttodo EXCEPT ![s] = shutdown(s)]
    /\ tres' = [tres EXCEPT ![s] = NoTRes]
    /\ UNCHANGED <<tgdb, tconn, tproc>>

\* A stop call of the shutdown has ended: shutdown goes on with the next one,
\* returns after the last, or is left by what the call raised.
TEnd(s, raised, log) ==
    LET r == Tail(ttodo[s]) IN
    /\ ttodo' = [ttodo EXCEPT ![s] = IF raised THEN <<>> ELSE r]
    /\ tpc' = [tpc EXCEPT ![s] = IF r = <<>> \/ raised THEN "returned" ELSE "stopping"]
    /\ tres' = [tres EXCEPT ![s] =
                   [log EXCEPT !.kind = IF raised THEN "raised"
                                        ELSE IF r = <<>> THEN "returned" ELSE @]]

\* session.py:45 with MiBridge.stop, mi.py:47-51: without a debugger handle
\* only the flag is cleared (mi.py:53); with one, exit() is called and what it
\* raises is swallowed.  A failed exit leaves the subprocess as it was.
TBridgeExit(s) ==
    /\ tpc[s] = "stopping"
    /\ ttodo[s] # <<>>
    /\ Head(ttodo[s]).leg = "bridge"
    /\ \E x \in GdbExitOutcomes(tgdb[s]) :
         LET log == [tres[s] EXCEPT !.stops = Append(@, "bridge"),
                                    !.found = Append(@, tgdb[s]), !.exit = x] IN
         IF x = "none"
           THEN /\ tconn' = [tconn EXCEPT ![s] = FALSE]
                /\ TEnd(s, FALSE, log)
                /\ UNCHANGED tgdb
           ELSE /\ tgdb' = [tgdb EXCEPT ![s] = IF x = "ok" THEN "exited" ELSE @]
                /\ tpc' = [tpc EXCEPT ![s] = "b_clear"]
                /\ tres' = [tres EXCEPT ![s] = log]
                /\ UNCHANGED <<tconn, ttodo>>
    /\ UNCHANGED <<tproc, tcalls>>

\* mi.py:52-53: the handle and the connected flag are cleared.
TBridgeClear(s) ==
    /\ tpc[s] = "b_clear"
    /\ tgdb' = [tgdb EXCEPT ![s] = "none"]
    /\ tconn' = [tconn EXCEPT ![s] = FALSE]
    /\ TEnd(s, FALSE, tres[s])
    /\ UNCHANGED <<tproc, tcalls>>

\* session.py:46 with OpenOcdProcess.stop (openocd.py:103-116).  What it
\* raises leaves shutdown.
TOcdStop(s) ==
    /\ tpc[s] = "stopping"
    /\ ttodo[s] # <<>>
    /\ Head(ttodo[s]).leg = "ocd"
    /\ \E o \in OcdStopOutcomes(tproc[s]) :
         /\ tproc' = [tproc EXCEPT ![s] = o.proc]
         /\ TEnd(s, o.raised, [tres[s] EXCEPT !.stops = Append(@, "ocd"),
                                               !.found = Append(@, tproc[s])])
    /\ UNCHANGED <<tgdb, tconn, tcalls>>

\* The caller takes the outcome.
TReturn(s) ==
    /\ tpc[s] = "returned"
    /\ tpc' = [tpc EXCEPT ![s] = "idle"]
    /\ UNCHANGED <<tgdb, tconn, tproc, ttodo, tres, tcalls>>

\* The debugger subprocess of session s exits on its own.
TGdbDies(s) ==
    /\ tgdb[s] = "running"
    /\ tgdb' = [tgdb EXCEPT ![s] = "exited"]
    /\ UNCHANGED <<tconn, tproc, tpc, ttodo, tres, tcalls>>

\* The adapter subprocess of session s exits on its own.
TOcdDies(s) ==
    /\ tproc[s] = "running"
    /\ tproc' = [tproc EXCEPT ![s] = "exited"]
    /\ UNCHANGED <<tgdb, tconn, tpc, ttodo, tres, tcalls>>

\* mi.py:30-32: is_connected is the flag that connect sets and stop clears.
is_connected(s) == tconn[s]

\* session.py:23-25: the adapter subprocess is running and the bridge is
\* connected.
is_alive(s) == OcdAlive(tproc[s]) /\ is_connected(s)

\* tools/session.py:119-120: debug_status answers 'disconnected'.
Disconnected(s) == ~is_alive(s)

\* ============================================== the exposed tool operations
\* The tools that take the name of a session, by module.
SessionTools == {"debug_detach", "debug_status"}
ExecutionTools == {"halt", "continue_execution", "wait_for_halt", "step", "step_over",
                   "step_out", "step_instruction", "run_to", "reset"}
BreakpointTools == {"breakpoint_set", "breakpoint_delete", "breakpoint_list", "watchpoint_set"}
InspectionTools == {"read_registers", "write_register", "read_memory", "write_memory",
                    "backtrace", "read_locals", "print_expr", "disassemble"}
AdvancedTools == {"load", "monitor"}
SnapshotTools == {"debug_snapshot"}
PeripheralTools == {"list_peripherals", "list_registers", "read_peripheral_register",
                    "read_peripheral"}
NamedTools ==
    SessionTools \cup ExecutionTools \cup BreakpointTools \cup InspectionTools
      \cup AdvancedTools \cup SnapshotTools \cup PeripheralTools

\* The exception classes of the `except` clause around a tool's body:
\* `except ValueError` in debug_detach and debug_status (tools/session.py:90,
\* 155), `except (ValueError, RuntimeError)` in every other tool.
Handlers(tool) ==
    IF tool \in SessionTools THEN {"ValueError"} ELSE {"ValueError", "RuntimeError"}

\* isinstance(exc, handlers): pygdbmi's GdbTimeoutError is a ValueError.
Caught_Never(handlers, exc) == FALSE

Caught(handlers, exc) ==
    \/ exc \in handlers
    \/ exc = "GdbTimeoutError" /\ "ValueError" \in handlers

\* What a tool's body calls once it has its session.
Uses(tool) ==
    CASE tool = "debug_detach" -> {"shutdown"}
      [] tool = "debug_status" -> {"drain_events"}
      [] tool = "halt" -> {"command", "wait_for_stop", "tcl_command"}
      [] tool = "wait_for_halt" -> {"wait_for_stop"}
      [] tool \in {"step", "step_over", "step_out", "step_instruction", "run_to"} ->
             {"command", "wait_for_stop"}
      [] tool \in {"reset", "load"} -> {"command", "drain_events"}
      [] tool = "debug_snapshot" -> {"drain_events", "guarded"}
      [] tool \in {"list_peripherals", "list_registers"} -> {"ensure_svd"}
      [] tool \in {"read_peripheral_register", "read_peripheral"} ->
             {"ensure_svd", "command", "unpack"}
      [] OTHER -> {"command"}

\* What each of these calls can raise into the tool's body.  command: no
\* debugger (mi.py:78), the write timing out, the handle cleared by a
\* concurrent stop, the write to a debugger that is gone.  shutdown: the
\* adapter's stop (openocd.py:114).  unpack: struct.unpack_from on fewer bytes
\* than the format needs, bytes.fromhex on text that is no hex.  drain_events
\* and wait_for_stop raise nothing (mi.py:102-108), halt catches what
\* tcl_command raises (execution.py:110-117), and the helpers of
\* debug_snapshot catch everything (snapshot.py:109, 135, 160).
Raises(use) ==
    CASE use = "command" -> {"RuntimeError", "GdbTimeoutError", "AttributeError", "OSError"}
      [] use = "shutdown" -> {"TimeoutExpired"}
      [] use = "unpack" -> {"StructError", "ValueError"}
      [] use = "ensure_svd" -> {"ValueError"}
      [] OTHER -> {}

\* before: the registry when the call began; touched: whether the call
\* reached a session's debugger or adapter; kind: "returned" or "raised";
\* error: the 'error' entry of the reply ("": none).
NoXCall == [tool |-> "none", name |-> "", sid |-> 0]
NoXRep == [tool |-> "none", name |-> "", before |-> <<>>, touched |-> FALSE,
           kind |-> "none", error |-> ""]

InitTools ==
    /\ xreg = <<>>
    /\ xpc = "idle"
    /\ xcur = NoXCall
    /\ xrep = NoXRep
    /\ xcalls = 0

\* The reply when the tool's try block ends with exception `exc` ("none": it
\* ran through, with a success payload or an 'error' entry of its own): a
\* caught exception becomes the 'error' entry, any other leaves the tool.
XReply(r, exc, error) ==
    [r EXCEPT !.kind = IF exc = "none" \/ Caught(Handlers(r.tool), exc)
                         THEN "returned" ELSE "raised",
              !.error = IF exc = "none" THEN error
                        ELSE IF Caught(Handlers(r.tool), exc) THEN exc ELSE ""]

\* How a debug_attach call goes: manager.attach fails (a taken name, a
\* subprocess that does not start, an error answer of the debugger; it
\* registers nothing, manager.py:90-105), or it registers the session and
\* monitor("reset halt") returns or raises what a command raises.
AttachOutcomes == {"attach_failed", "attached"} \cup Raises("command")

\* debug_attach (tools/session.py:36-78): manager.attach registers the
\* session under a free name (line 50), then the target is reset and halted
\* through the new session's bridge (line 58) and the reply is built.
XAttach(n, out) ==
    /\ xpc = "idle"
    /\ xcalls < MaxCalls
    /\ xcalls' = xcalls + 1
    /\ xpc' = "returned"
    /\ LET r == [NoXRep EXCEPT !.tool = "debug_attach", !.name = n, !.before = xreg] IN
       IF NameTaken(xreg, n) \/ out = "attach_failed"
         THEN /\ xrep' = XReply(r, IF NameTaken(xreg, n) THEN "ValueError" ELSE "RuntimeError", "")
              /\ UNCHANGED xreg
         ELSE /\ Len(xreg) < MaxSessions
              /\ xreg' = DictSet(xreg, n, CHOOSE s \in Sids : s \notin SeqRange(DictValues(xreg)))
              /\ xrep' = XReply([r EXCEPT !.touched = TRUE],
                                IF out = "attached" THEN "none" ELSE out, "")
    /\ UNCHANGED xcur

\* The first statement of every tool's try block: manager.get(name), in
\* debug_detach manager.detach(name), which pops the entry.  A name that is not
\* registered raises ValueError (manager.py:112, 121).
XBegin(tool, n) ==
    /\ xpc = "idle"
    /\ xcalls < MaxCalls
    /\ xcalls' = xcalls + 1
    /\ LET s == DictGet(xreg, n)
           r == [NoXRep EXCEPT !.tool = tool, !.name = n, !.before = xreg]
       IN
       IF s = 0
         THEN /\ xrep' = XReply(r, "ValueError", "")
              /\ xpc' = "returned"
              /\ UNCHANGED <<xreg, xcur>>
         ELSE /\ xrep' = r
              /\ xcur' = [tool |-> tool, name |-> n, sid |-> s]
              /\ xpc' = "x_body"
              /\ xreg' = IF tool = "debug_detach" THEN DictPop(xreg, n) ELSE xreg

\* The rest of the tool's body, on its session: it runs through to a success
\* payload, returns an 'error' entry of its own (error result, unexpected
\* payload), or is left by what one of its calls raises.
XBody ==
    /\ xpc = "x_body"
    /\ \E exc \in {"none"} \cup UNION {Raises(u) : u \in Uses(xcur.tool)},
          error \in {"", "error"} :
         /\ exc # "none" => error = ""
         /\ (error = "error" /\ exc = "none") => xcur.tool # "debug_detach"
         /\ xpc' = "returned"
         /\ xcur' = NoXCall
         /\ xrep' = XReply([xrep EXCEPT !.touched = TRUE], exc, error)
    /\ UNCHANGED <<xreg, xcalls>>

\* The caller takes the reply.
XReturn ==
    /\ xpc = "returned"
    /\ xpc' = "idle"
    /\ xrep' = NoXRep
    /\ UNCHANGED <<xreg, xcur, xcalls>>

\* ======================================================== the halt tool
\* MiResult.error_msg (types.py:74-78): the payload's message of an error
\* result with a dict payload, 0 for None
error_msg(res) == IF is_error(res.message) /\ IsDict(res.payload) THEN res.payload ELSE 0

\* _stop_from_result (execution.py:12-19): the StopEvent of the first stop
\* notification with a dict payload among the result's events, 0 for None
stop_from_result(res) ==
    LET i == FirstStop(res.events, 1) IN
    IF i = 0 THEN 0 ELSE from_mi(res.events[i].payload)

\* OpenOcdProcess.tcl_command("halt"): one line sent over a short-lived
\* connection to the adapter's control port; it succeeds, or fails with the
\* RuntimeError its caller handles (execution.py:110-112).
tcl_command == {"ok", "RuntimeError"}

\* What wait_for_stop returns: None (0) or the StopEvent of a notification.
WaitOutcomes == {0, 1, 2}

\* Records of the batch read in answer to -exec-interrupt.
HaltRecords ==
    {Rec("result", "done", 0, <<>>), Rec("result", "error", 1, <<>>),
     Rec("notify", "stopped", 1, <<>>), Rec("notify", "stopped", 0, <<>>)}

HaltBatches == UNION {[1..n -> HaltRecords] : n \in 1..MaxStream}

\* The replies of halt.  error: the 'error' entry, from an exception's text
\* or from the debugger's message.
NoError == [from |-> "none", msg |-> 0]
Reply(kind, state, method, warning, error, stop) ==
    [kind |-> kind, state |-> state, method |-> method, warning |-> warning,
     error |-> error, stop |-> stop]
NoReply == Reply("none", "", "", "", NoError, 0)

\* execution.py:97-100: the reply when the interrupt path found a stop.
HaltedReply(stop) == Reply("returned", "halted", "", "", NoError, stop)

\* execution.py:142-143: ValueError and RuntimeError become an 'error' entry.
ErrorReply(exc) == Reply("returned", "", "", "", [from |-> exc, msg |-> 0], 0)

\* execution.py:110-141: the reply of the fallback, from the outcome of the
\* control-socket halt and of the wait that follows a successful one.
FallbackReply_AsError(tcl, stop) ==
    IF tcl = "ok" /\ stop # 0
      THEN Reply("returned", "halted", "openocd_tcl", "", NoError, stop)
      ELSE Reply("returned", "", "", "", [from |-> "fallback", msg |-> 0], 0)

FallbackReply(tcl, stop) ==
    IF tcl # "ok" THEN Reply("returned", "unknown", "", "tcl_failed", NoError, 0)
    ELSE IF stop # 0 THEN Reply("returned", "halted", "openocd_tcl", "", NoError, stop)
    ELSE Reply("returned", "halted", "openocd_tcl", "desync", NoError, 0)

\* interrupt: how the interrupt command ended ("timeout", "error": an error
\* result, "ack": a result without error); result: the MiResult of it; wait1,
\* wait2: what the waits returned (-1: not called); tcl: the outcome of the
\* control-socket halt ("none": not sent).
NoHalt == [name |-> "", interrupt |-> "none", result |-> NoMi, wait1 |-> -1,
           tcl |-> "none", wait2 |-> -1]

InitHalt ==
    /\ hpc = "idle"
    /\ hloc = NoHalt
    /\ hrep = NoReply

HaltEnd(r) ==
    /\ hpc' = "done"
    /\ hrep' = r

\* execution.py:79-80: manager.get(name); without the session its ValueError
\* becomes an 'error' entry.
HaltGet(n) ==
    /\ hpc = "idle"
    /\ hloc' = [NoHalt EXCEPT !.name = n]
    /\ \/ hpc' = "h_interrupt" /\ UNCHANGED hrep
       \/ HaltEnd(ErrorReply("NoSession"))

\* execution.py:87-104: session.bridge.command("-exec-interrupt").
HaltInterrupt ==
    /\ hpc = "h_interrupt"
    /\ \/ \* GdbTimeoutError: caught, go on with the fallback
          /\ hloc' = [hloc EXCEPT !.interrupt = "timeout"]
          /\ hpc' = "h_tcl"
          /\ UNCHANGED hrep
       \/ \* the bridge has no debugger: RuntimeError, caught at the end
          /\ hloc' = [hloc EXCEPT !.interrupt = "raised"]
          /\ HaltEnd(ErrorReply("NotRunning"))
       \/ \* a failure of the write that is neither: it leaves halt
          /\ hloc' = [hloc EXCEPT !.interrupt = "raised"]
          /\ HaltEnd(Reply("raised", "", "", "", NoError, 0))
       \/ \E rs \in HaltBatches :
            LET res == CommandOutcome("batch", rs).res
                stop == stop_from_result(res)
            IN
            IF is_error(res.message)
              THEN \* `pass`: the fallback is tried
                   /\ hloc' = [hloc EXCEPT !.interrupt = "error", !.result = res]
                   /\ hpc' = "h_tcl"
                   /\ UNCHANGED hrep
              ELSE /\ hloc' = [hloc EXCEPT !.interrupt = "ack", !.result = res]
                   /\ IF stop # 0
                        THEN HaltEnd(HaltedReply(stop))
                        ELSE hpc' = "h_wait1" /\ UNCHANGED hrep

\* execution.py:95-100: wait_for_stop(timeout=3.0) after an acknowledgment.
HaltWait1 ==
    /\ hpc = "h_wait1"
    /\ \E w \in WaitOutcomes :
         /\ hloc' = [hloc EXCEPT !.wait1 = w]
         /\ IF w # 0
              THEN HaltEnd(HaltedReply(w))
              ELSE hpc' = "h_tcl" /\ UNCHANGED hrep

\* execution.py:110-117: the control-socket halt.
HaltTcl ==
    /\ hpc = "h_tcl"
    /\ \E o \in tcl_command :
         /\ hloc' = [hloc EXCEPT !.tcl = o]
         /\ IF o = "ok"
              THEN hpc' = "h_wait2" /\ UNCHANGED hrep
              ELSE HaltEnd(FallbackReply(o, 0))

\* execution.py:119-141: wait_for_stop(timeout=3.0) after the halt.
HaltWait2 ==
    /\ hpc = "h_wait2"
    /\ \E w \in WaitOutcomes :
         /\ hloc' = [hloc EXCEPT !.wait2 = w]
         /\ HaltEnd(FallbackReply(hloc.tcl, w))

\* The caller takes the reply.
HaltReturn ==
    /\ hpc = "done"
    /\ hpc' = "idle"
    /\ hloc' = NoHalt
    /\ hrep' = NoReply

\* ================================================= MiResult.from_responses
\* The kinds of record a batch is made of: results, a notification, console
\* text with and without content, and a record of another kind (log).
RecordKinds ==
    {Rec("result", "done", 1, <<>>), Rec("result", "error", 2, <<>>),
     Rec("notify", "stopped", 0, <<>>),
     Rec("console", "", 0, <<"t", "NL">>), Rec("console", "", 0, <<>>),
     Rec("log", "", 0, <<"t">>)}

Batches == UNION {[1..n -> RecordKinds] : n \in 0..MaxBatch}

InitParse ==
    /\ batch = <<>>
    /\ parsed = NoMi
    /\ done = FALSE

\* A batch arrives.
Receive ==
    /\ ~done
    /\ batch = <<>>
    /\ batch' \in Batches \ {<<>>}
    /\ UNCHANGED <<parsed, done>>

\* types.py:80-105 applied to the batch.
Parse ==
    /\ ~done
    /\ parsed' = from_responses(batch)
    /\ done' = TRUE
    /\ UNCHANGED batch

\* ========================================================= PeripheralDb
\* A register value is modelled by the set of the positions of its one bits
\* (0 is {}, 0xFFFFFFFF is 0..31), so that all 32 bits are kept.
WordBits == 0..31
RawValues == {{}, WordBits, {0, 12, 31}, {13, 16}}

\* raw_value >> n
Shr_None(bits, n) == bits

Shr(bits, n) == {b - n : b \in {c \in bits : c >= n}}

\* (1 << n) - 1
Ones(n) == {b \in WordBits \cup {32} : b < n}

\* a & b
BitAnd(a, b) == a \cap b

PeriphNames == {"GPIOA", "GPIOB"}
RegNames == {"CR", "SR"}
Bases == {1073872896, 1073872900}
Offsets == {0, 4, 8}

\* The bitfields an SVD file declares for a register, in declared order.
FieldsOf(rn) ==
    IF rn = "CR"
    THEN << [name |-> "MODE", bit_offset |-> 12, bit_width |-> 2],
            [name |-> "EN", bit_offset |-> 0, bit_width |-> 1],
            [name |-> "LOCK", bit_offset |-> 31, bit_width |-> 1] >>
    ELSE << [name |-> "WORD", bit_offset |-> 0, bit_width |-> 32],
            [name |-> "HI", bit_offset |-> 16, bit_width |-> 16] >>

\* Sequences without repetition over a set (declared names are distinct).
Distinct(S) ==
    UNION {{q \in [1..n -> S] : \A i, j \in 1..n : q[i] = q[j] => i = j} : n \in 0..Cardinality(S)}

\* cecrops Register objects of one peripheral.
RegisterLists(regnames, offsets, sizes) ==
    UNION {{[i \in 1..Len(names) |->
               [name |-> names[i], address_offset |-> offs[i], size |-> szs[i],
                fields |-> FieldsOf(names[i])]] :
              offs \in [1..Len(names) -> offsets], szs \in [1..Len(names) -> sizes]} :
           names \in Distinct(regnames)}

\* cecrops Device.peripherals.
Devices ==
    UNION {{[i \in 1..Len(names) |->
               [name |-> names[i], base_address |-> bases[i], registers |-> regs[i]]] :
              bases \in [1..Len(names) -> Bases],
              regs \in [1..Len(names) -> RegisterLists(RegNames, Offsets, {32})]} :
           names \in Distinct(PeriphNames) \ {<<>>}}

\* Addresses asked of lookup_address.
Addrs == {b + o : b \in Bases, o \in Offsets \cup {2, 12}} \cup {b - 4 : b \in Bases}

\* peripheral_db.py:53-57: one (address, peripheral, register) per register,
\* peripherals and registers in declared order.
RECURSIVE RegEntries(_, _)
RegEntries(p, i) ==
    IF i > Len(p.registers) THEN <<>>
    ELSE <<[addr |-> p.base_address + p.registers[i].address_offset,
            p |-> p.name, r |-> p.registers[i].name]>> \o RegEntries(p, i + 1)

RECURSIVE Entries(_, _)
Entries(dev, i) ==
    IF i > Len(dev) THEN <<>> ELSE RegEntries(dev[i], 1) \o Entries(dev, i + 1)

\* list.sort(key=address): stable, ascending.
RECURSIVE InsertByAddr(_, _)
InsertByAddr(sorted, e) ==
    IF sorted = <<>> THEN <<e>>
    ELSE IF sorted[Len(sorted)].addr <= e.addr THEN Append(sorted, e)
    ELSE Append(InsertByAddr(SubSeq(sorted, 1, Len(sorted) - 1), e), sorted[Len(sorted)])

SortByAddr_None(q) == q

RECURSIVE SortByAddr(_)
SortByAddr(q) ==
    IF q = <<>> THEN <<>>
    ELSE InsertByAddr(SortByAddr(SubSeq(q, 1, Len(q) - 1)), q[Len(q)])

\* peripheral_db.py:165-175 (names are kept in upper case throughout): the
\* peripheral of that name, <<>> when there is none.
get_peripheral(dev, pn) ==
    IF \E i \in 1..Len(dev) : dev[i].name = pn
    THEN <<dev[CHOOSE i \in 1..Len(dev) : dev[i].name = pn]>>
    ELSE <<>>

\* peripheral_db.py:177-188: the first register of that name.
get_register(p, rn) ==
    LET hits == {i \in 1..Len(p.registers) : p.registers[i].name = rn} IN
    IF hits = {} THEN <<>>
    ELSE <<p.registers[CHOOSE i \in hits : \A j \in hits : i <= j]>>

\* peripheral_db.py:126-137.
DecodeFields(fields, raw) ==
    [i \in 1..Len(fields) |->
        [name |-> fields[i].name,
         value |-> BitAnd(Shr(raw, fields[i].bit_offset), Ones(fields[i].bit_width)),
         width |-> fields[i].bit_width]]

\* peripheral_db.py:118-145.
decode_register(dev, pn, rn, raw) ==
    LET p == get_peripheral(dev, pn) IN
    IF p = <<>> THEN [kind |-> "ValueError"]
    ELSE LET r == get_register(p[1], rn) IN
         IF r = <<>> THEN [kind |-> "ValueError"]
         ELSE [kind |-> "DecodedRegister", peripheral |-> p[1].name, register |-> r[1].name,
               address |-> p[1].base_address + r[1].address_offset, raw_value |-> raw,
               fields |-> DecodeFields(r[1].fields, raw)]

\* peripheral_db.py:153-163.
RECURSIVE Search(_, _, _, _)
Search(tab, lo, hi, address) ==
    IF lo >= hi THEN <<>>
    ELSE LET mid == (lo + hi) \div 2 IN
         IF tab[mid + 1].addr < address THEN Search(tab, mid + 1, hi, address)
         ELSE IF tab[mid + 1].addr > address THEN Search(tab, lo, mid, address)
         ELSE <<tab[mid + 1].p, tab[mid + 1].r>>

lookup_address(tab, address) == Search(tab, 0, Len(tab), address)

NoDCall == [op |-> "none"]

InitSvd ==
    /\ device = <<>>
    /\ by_address = <<>>
    /\ dpc = "new"
    /\ dout = NoDCall

\* peripheral_db.py:46-58.
DbBuild(dev) ==
    /\ dpc = "new"
    /\ device' = dev
    /\ by_address' = SortByAddr(Entries(dev, 1))
    /\ dpc' = "ready"
    /\ UNCHANGED dout

DbDecode(pn, rn, raw) ==
    /\ dpc = "ready"
    /\ dout' = [op |-> "decode_register", peripheral |-> pn, register |-> rn, raw |-> raw,
                out |-> decode_register(device, pn, rn, raw)]
    /\ dpc' = "done"
    /\ UNCHANGED <<device, by_address>>

DbLookup(a) ==
    /\ dpc = "ready"
    /\ dout' = [op |-> "lookup_address", address |-> a, out |-> lookup_address(by_address, a)]
    /\ dpc' = "done"
    /\ UNCHANGED <<device, by_address>>

\* ================================================ the read_peripheral tool
\* peripheral.py:196.
BulkLimit == 4096
\* p.base_address of the peripheral read.
PBase == 1073872896
\* Register offsets and sizes (bits) of the peripherals read: neighbours, and
\* registers on either side of the 4096-byte limit.
POffsets == {0, 4, 4092, 4096}
PSizes == {32, 16, 8}
PRegNames == {"CR", "SR", "DR"}
Peripherals == RegisterLists(PRegNames, POffsets, PSizes)

\* What the debugger may answer to -data-read-memory-bytes: an ^error result,
\* no answer within the timeout (GdbTimeoutError out of command), a payload
\* that is no dict, an empty memory list, contents that are no hex string,
\* or contents of some number of bytes.
ReadFailures == {"error", "timeout", "nopayload", "nomemory", "malformed"}
Answers(count) ==
    {[kind |-> k, len |-> 0] : k \in ReadFailures}
      \cup {[kind |-> "data", len |-> l] : l \in {m \in {0, 1, 2, 6, count} : 0 <= m /\ m <= count}}

\* Python's slice index clamping for a bytes object of length n.
SliceIndex(n, i) ==
    IF i < 0 THEN (IF n + i < 0 THEN 0 ELSE n + i) ELSE (IF i > n THEN n ELSE i)

\* peripheral.py:223-228 / 254-259 on a chunk of `have` bytes that begins at
\* address `at`: the little-endian value of the first reg_size bytes, kept as
\* the place it was taken from; struct.error or IndexError when the chunk is
\* too short.
Unpack(at, have, reg_size) ==
    IF reg_size \in {4, 2}
    THEN (IF have >= reg_size THEN [kind |-> "value", at |-> at, n |-> reg_size]
          ELSE [kind |-> "StructError"])
    ELSE (IF have >= 1 THEN [kind |-> "value", at |-> at, n |-> 1]
          ELSE [kind |-> "IndexError"])

\* peripheral.py:216-231: the loop over the registers in bulk mode, from
\* register i on, `acc` being `registers` so far. An exception ends it.
RECURSIVE BulkLoop(_, _, _, _, _, _)
BulkLoop(regs, i, first_offset, start_addr, n, acc) ==
    IF i > Len(regs) THEN [kind |-> "done", registers |-> acc]
    ELSE
      LET offset_in_buf == regs[i].address_offset - first_offset
          reg_size == regs[i].size \div 8
          lo == SliceIndex(n, offset_in_buf)
          hi == SliceIndex(n, offset_in_buf + reg_size)
          raw == Unpack(start_addr + lo, IF hi > lo THEN hi - lo ELSE 0, reg_size)
      IN
      IF offset_in_buf + reg_size > n
      THEN BulkLoop(regs, i + 1, first_offset, start_addr, n, acc)
      ELSE IF raw.kind # "value" THEN [kind |-> raw.kind, registers |-> acc]
      ELSE BulkLoop(regs, i + 1, first_offset, start_addr, n,
                    Append(acc, [register |-> regs[i].name, at |-> raw.at, n |-> raw.n]))

NoRRep == [kind |-> "none", error |-> "", registers |-> <<>>, mode |-> "none"]

InitPeriph ==
    /\ rp = <<>>
    /\ rpc = "idle"
    /\ ridx = 1
    /\ rreads = <<>>
    /\ rgot = <<>>
    /\ rregs = <<>>
    /\ rrep = NoRRep

\* peripheral.py:190-194.
Span(regs) ==
    (regs[Len(regs)].address_offset + regs[Len(regs)].size \div 8) - regs[1].address_offset

\* peripheral.py:196.
UseBulk(span) == span <= BulkLimit

\* peripheral.py:176-196: the session and its database are there and the
\* peripheral is found; a peripheral without registers is answered at once.
RBegin(regs) ==
    /\ rpc = "idle"
    /\ rp' = regs
    /\ IF regs = <<>>
       THEN /\ rpc' = "returned"
            /\ rrep' = [kind |-> "returned", error |-> "", registers |-> <<>>, mode |-> "none"]
       ELSE /\ rpc' = IF UseBulk(Span(regs)) THEN "bulk" ELSE "sparse"
            /\ UNCHANGED rrep
    /\ UNCHANGED <<ridx, rreads, rgot, rregs>>

\* peripheral.py:197-231, 264-272: one command for the block, then every
\* register cut out of what came back.
RBulk(ans) ==
    /\ rpc = "bulk"
    /\ LET first_offset == rp[1].address_offset
           start_addr == PBase + first_offset
           loop == BulkLoop(rp, 1, first_offset, start_addr, ans.len, <<>>)
       IN
       /\ rreads' = Append(rreads, [addr |-> start_addr, count |-> Span(rp)])
       /\ rgot' = Append(rgot, ans)
       /\ rrep' =
            CASE ans.kind = "error" ->
                   [kind |-> "returned", error |-> "error_msg", registers |-> <<>>, mode |-> "bulk"]
              [] ans.kind \in {"timeout", "malformed"} ->
                   [kind |-> "returned", error |-> "ValueError", registers |-> <<>>, mode |-> "bulk"]
              [] ans.kind = "nopayload" ->
                   [kind |-> "returned", error |-> "Unexpected response from memory read",
                    registers |-> <<>>, mode |-> "bulk"]
              [] ans.kind = "nomemory" ->
                   [kind |-> "returned", error |-> "No memory data returned",
                    registers |-> <<>>, mode |-> "bulk"]
              [] OTHER ->
                   IF loop.kind = "done"
                   THEN [kind |-> "returned", error |-> "", registers |-> loop.registers,
                         mode |-> "bulk"]
                   ELSE [kind |-> "raised", error |-> loop.kind, registers |-> <<>>,
                         mode |-> "bulk"]
       /\ rregs' = IF ans.kind = "data" THEN loop.registers ELSE rregs
    /\ rpc' = "returned"
    /\ UNCHANGED <<rp, ridx>>

\* peripheral.py:235-262, 271-272: one pass of the loop in sparse mode.
RSparseRead(ans) ==
    /\ rpc = "sparse"
    /\ ridx <= Len(rp)
    /\ LET addr == PBase + rp[ridx].address_offset
           reg_size == rp[ridx].size \div 8
           raw == Unpack(addr, ans.len, reg_size)
       IN
       /\ rreads' = Append(rreads, [addr |-> addr, count |-> reg_size])
       /\ rgot' = Append(rgot, ans)
       /\ CASE ans.kind \in {"error", "nopayload", "nomemory"} ->
                 /\ ridx' = ridx + 1
                 /\ UNCHANGED <<rpc, rregs, rrep>>
            [] ans.kind \in {"timeout", "malformed"} ->
                 /\ rpc' = "returned"
                 /\ rrep' = [kind |-> "returned", error |-> "ValueError", registers |-> <<>>,
                             mode |-> "sparse"]
                 /\ UNCHANGED <<ridx, rregs>>
            [] ans.kind = "data" /\ raw.kind # "value" ->
                 /\ rpc' = "returned"
                 /\ rrep' = [kind |-> "raised", error |-> raw.kind, registers |-> <<>>,
                             mode |-> "sparse"]
                 /\ UNCHANGED <<ridx, rregs>>
            [] OTHER ->
                 /\ rregs' = Append(rregs, [register |-> rp[ridx].name, at |-> raw.at, n |-> raw.n])
                 /\ ridx' = ridx + 1
                 /\ UNCHANGED <<rpc, rrep>>
    /\ UNCHANGED rp

\* peripheral.py:264-270 after the sparse loop.
RSparseReturn ==
    /\ rpc = "sparse"
    /\ ridx > Len(rp)
    /\ rrep' = [kind |-> "returned", error |-> "", registers |-> rregs, mode |-> "sparse"]
    /\ rpc' = "returned"
    /\ UNCHANGED <<rp, ridx, rreads, rgot, rregs>>

\* ================================================== _ensure_svd
\* A session's slot for its database, as attach leaves it.
NoSvd == 0

InitEnsure ==
    /\ svd = [s \in Sids |-> NoSvd]
    /\ epc = [t \in Threads |-> "idle"]
    /\ edb = [t \in Threads |-> [sid |-> 0, db |-> 0]]
    /\ ebuilds = [s \in Sids |-> 0]
    /\ ecalls = 0

\* peripheral.py:18-19: the slot of the session is looked at; a database
\* found there is returned.
EnsureCheck(t, s) ==
    /\ epc[t] \in {"idle", "returned"}
    /\ ecalls < MaxCalls
    /\ ecalls' = ecalls + 1
    /\ epc' = [epc EXCEPT ![t] = IF svd[s] # NoSvd THEN "returned" ELSE "load"]
    /\ edb' = [edb EXCEPT ![t] = [sid |-> s, db |-> svd[s]]]
    /\ UNCHANGED <<svd, ebuilds>>

\* peripheral.py:21-44: the database is built from the SVD file, or the call
\* ends with ValueError (here -1): no cecrops, no MCU for the target, no file.
EnsureLoad(t, ok) ==
    /\ epc[t] = "load"
    /\ LET s == edb[t].sid IN
       IF ok
       THEN /\ ebuilds' = [ebuilds EXCEPT ![s] = ebuilds[s] + 1]
            /\ edb' = [edb EXCEPT ![t].db = ebuilds[s] + 1]
            /\ epc' = [epc EXCEPT ![t] = "store"]
       ELSE /\ edb' = [edb EXCEPT ![t].db = -1]
            /\ epc' = [epc EXCEPT ![t] = "returned"]
            /\ UNCHANGED ebuilds
    /\ UNCHANGED <<svd, ecalls>>

\* peripheral.py:46-47.
EnsureStore(t) ==
    /\ epc[t] = "store"
    /\ svd' = [svd EXCEPT ![edb[t].sid] = edb[t].db]
    /\ epc' = [epc EXCEPT ![t] = "returned"]
    /\ UNCHANGED <<edb, ebuilds, ecalls>>

\* ================================================= the target-state tools
\* continue_execution, wait_for_halt, run_to, step (execution.py) and
\* debug_status, debug_snapshot (tools/session.py, tools/snapshot.py) on one
\* session whose debugger answers every command.
StateTools == {"continue_execution", "wait_for_halt", "run_to", "step",
               "debug_status", "debug_snapshot"}

\* A notification: *stopped with a dict payload (the number of the stop) or
\* with none (0), or *running.
Note(message, payload) == [message |-> message, payload |-> payload]

\* execution.py:12-19: the payload of the first stop notification with a dict
\* payload among the events, 0 (None) when there is none.
RECURSIVE stop_from_events(_, _)
stop_from_events(events, i) ==
    IF i > Len(events) THEN 0
    ELSE IF events[i].message = "stopped" /\ events[i].payload # 0 THEN events[i].payload
    ELSE stop_from_events(events, i + 1)

\* A loop that passes over stop notifications.
StateLoop_NoStop(events, i, is_running, last_stop) ==
    [is_running |-> is_running, last_stop |-> last_stop]

\* tools/session.py:126-137, snapshot.py:29-40: the loop over the drained
\* events, from event i on.
RECURSIVE StateLoop(_, _, _, _)
StateLoop(events, i, is_running, last_stop) ==
    IF i > Len(events) THEN [is_running |-> is_running, last_stop |-> last_stop]
    ELSE IF events[i].message = "stopped"
         THEN StateLoop(events, i + 1, FALSE,
                        IF events[i].payload # 0 THEN events[i].payload ELSE last_stop)
    ELSE IF events[i].message = "running" THEN StateLoop(events, i + 1, TRUE, 0)
    ELSE StateLoop(events, i + 1, is_running, last_stop)

\* Whether a batch holds a stop notification.
HasStop(events) == \E i \in 1..Len(events) : events[i].message = "stopped"

NoQCall == [tool |-> "none", stop |-> 0, cmds |-> 0, events |-> <<>>,
            after |-> "none", ack |-> 0]
NoQRep == [tool |-> "none", state |-> "none", stop |-> 0, error |-> FALSE, cmds |-> 0,
           events |-> <<>>, emitted |-> 0, known |-> FALSE]

\* state: what the target does. stops: the stops it has made so far. known:
\* a tool has read a stop notification and no tool has resumed the target
\* since. emitted: the stop, with its payload, made since a tool last
\* resumed the target (0: none yet).
InitState ==
    /\ qtarget = [state |-> "running", stops |-> 0, known |-> FALSE, emitted |-> 0]
    /\ qpend = <<>>
    /\ qpc = "idle"
    /\ qcur = NoQCall
    /\ qrep = NoQRep
    /\ qcalls = 0

\* The tool returns.
QReply(state, stop, error, events, consumed) ==
    /\ qpc' = "returned"
    /\ qrep' = [tool |-> qcur.tool, state |-> state, stop |-> stop, error |-> error,
                cmds |-> qcur.cmds, events |-> events, emitted |-> qtarget.emitted,
                known |-> qtarget.known]
    /\ qtarget' = [qtarget EXCEPT !.known = @ \/ consumed]

\* The target stops on its own (breakpoint, fault): the debugger emits a stop
\* notification, with or without a dict payload.
TargetStops(dict) ==
    /\ qtarget.state = "running"
    /\ Len(qpend) < MaxStream
    /\ qpc \notin {"cont", "step"}
    /\ qtarget' = [qtarget EXCEPT !.state = "halted", !.stops = @ + 1,
                                  !.emitted = IF dict THEN qtarget.stops + 1 ELSE @]
    /\ qpend' = Append(qpend, Note("stopped", IF dict THEN qtarget.stops + 1 ELSE 0))
    /\ UNCHANGED <<qpc, qcur, qrep, qcalls>>

\* A tool is called (manager.get finds the session). after, ack: the tool
\* called before it and, when that was continue_execution, the stop its
\* acknowledgment came with.
QBegin(tool) ==
    /\ qpc \in {"idle", "returned"}
    /\ qcalls < MaxCalls
    /\ qcalls' = qcalls + 1
    /\ qcur' = [NoQCall EXCEPT !.tool = tool, !.after = qrep.tool,
                               !.ack = IF qrep.tool = "continue_execution"
                                       THEN qrep.emitted ELSE 0]
    /\ qpc' = CASE tool = "continue_execution" -> "cont"
              [] tool = "wait_for_halt" -> "wait"
              [] tool = "run_to" -> "bp"
              [] tool = "step" -> "step"
              [] OTHER -> "drain"
    /\ UNCHANGED <<qtarget, qpend, qrep>>

\* execution.py:240-242: -break-insert -t; its response batch takes the
\* notifications pending with it.
QBreakInsert(ok) ==
    /\ qpc = "bp"
    /\ qpend' = <<>>
    /\ IF ok
       THEN /\ qpc' = "cont"
            /\ UNCHANGED <<qtarget, qrep>>
       ELSE QReply("none", 0, TRUE, qpend, FALSE)
    /\ UNCHANGED <<qcur, qcalls>>

\* execution.py:157-160, 245-247, 41-52: -exec-continue or -exec-step. A
\* running target refuses it. A halted one resumes: the batch of the
\* acknowledgment holds the pending notifications, *running and, when the
\* target has stopped again before the batch was read, that stop; `late`:
\* the debugger writes the two after the batch has been read, so they stay
\* pending.
QResume(again, late) ==
    /\ qpc \in {"cont", "step"}
    /\ qpend' = IF qtarget.state = "halted" /\ late
                THEN <<Note("running", 0)>>
                       \o (IF again THEN <<Note("stopped", qtarget.stops + 1)>> ELSE <<>>)
                ELSE <<>>
    /\ IF qtarget.state = "running"
       THEN /\ QReply("none", 0, TRUE, qpend, FALSE)
            /\ UNCHANGED qcur
       ELSE
         LET n == qtarget.stops + 1
             answer == IF late THEN qpend
                       ELSE qpend \o <<Note("running", 0)>>
                              \o (IF again THEN <<Note("stopped", n)>> ELSE <<>>)
             target == [state |-> IF again THEN "halted" ELSE "running",
                        stops |-> IF again THEN n ELSE qtarget.stops,
                        known |-> FALSE,
                        emitted |-> IF again THEN n ELSE 0]
             stop == stop_from_events(answer, 1)
         IN
         CASE qcur.tool = "continue_execution" ->
                \* execution.py:160: the events of the answer are dropped.
                /\ qpc' = "returned"
                /\ qrep' = [NoQRep EXCEPT !.tool = qcur.tool, !.state = "running",
                                          !.events = answer, !.emitted = target.emitted]
                /\ qtarget' = target
                /\ UNCHANGED qcur
           [] qcur.tool = "run_to" ->
                \* execution.py:250: cont_result.events are not looked at.
                /\ qpc' = "wait"
                /\ qtarget' = target
                /\ qcur' = [qcur EXCEPT !.events = answer]
                /\ UNCHANGED qrep
           [] OTHER ->
                \* execution.py:46-49: a stop of the answer is used, else wait.
                IF stop # 0
                THEN /\ qpc' = "returned"
                     /\ qrep' = [NoQRep EXCEPT !.tool = qcur.tool, !.state = "halted",
                                               !.stop = stop, !.events = answer,
                                               !.emitted = target.emitted]
                     /\ qtarget' = [target EXCEPT !.known = TRUE]
                     /\ UNCHANGED qcur
                ELSE /\ qpc' = "wait"
                     /\ qtarget' = target
                     /\ qcur' = [qcur EXCEPT !.events = answer]
                     /\ UNCHANGED qrep
    /\ UNCHANGED qcalls

\* mi.py:117-125 as the tools use it (execution.py:49, 176, 250): one poll
\* of wait_for_stop; `last`: the deadline has passed after it.
QWaitPoll(last) ==
    /\ qpc = "wait"
    /\ qpend' = <<>>
    /\ LET stop == stop_from_events(qpend, 1) IN
       IF stop # 0 THEN QReply("halted", stop, FALSE, qpend, TRUE)
       ELSE IF last THEN QReply("running", 0, FALSE, qpend, FALSE)
       ELSE UNCHANGED <<qpc, qrep, qtarget>>
    /\ UNCHANGED <<qcur, qcalls>>

\* tools/session.py:122-154, snapshot.py:27-45: the pending notifications
\* are drained and the state is derived from them; a halted snapshot goes on
\* to read registers, backtrace and locals.
QDrain ==
    /\ qpc = "drain"
    /\ qpend' = <<>>
    /\ LET st == StateLoop(qpend, 1, TRUE, 0) IN
       IF qcur.tool = "debug_snapshot" /\ ~st.is_running
       THEN /\ qpc' = "regs"
            /\ qcur' = [qcur EXCEPT !.stop = st.last_stop, !.events = qpend]
            /\ qtarget' = [qtarget EXCEPT !.known = TRUE]
            /\ UNCHANGED qrep
       ELSE /\ QReply(IF st.is_running THEN "running" ELSE "halted", st.last_stop, FALSE,
                      qpend, HasStop(qpend) /\ ~st.is_running)
            /\ UNCHANGED qcur
    /\ UNCHANGED qcalls

\* snapshot.py:58-67: one of the three reads of a halted snapshot; a failing
\* read is left out (snapshot.py:109-110, 135-136, 160-161).
QSnapshotRead ==
    /\ qpc \in {"regs", "bt", "locals"}
    /\ qpend' = <<>>
    /\ IF qpc = "locals"
       THEN /\ qpc' = "returned"
            /\ qrep' = [tool |-> qcur.tool, state |-> "halted", stop |-> qcur.stop,
                        error |-> FALSE, cmds |-> qcur.cmds + 1, events |-> qcur.events,
                        emitted |-> qtarget.emitted, known |-> qtarget.known]
            /\ UNCHANGED qcur
       ELSE /\ qpc' = IF qpc = "regs" THEN "bt" ELSE "locals"
            /\ qcur' = [qcur EXCEPT !.cmds = @ + 1]
            /\ UNCHANGED qrep
    /\ UNCHANGED <<qtarget, qcalls>>

\* C32: run_to reports 'halted', with the stop's reason and frame, whenever
\* the target has stopped within the wait after -exec-continue, whether the
\* stop notification came with the acknowledgment of -exec-continue or
\* later; and a stop that came with the acknowledgment of continue_execution
\* is reported by the wait_for_halt that follows it.
C32_StopAfterContinueIsReported ==
    /\ (qpc = "returned" /\ qrep.tool = "run_to" /\ ~qrep.error /\ qrep.emitted # 0)
           => (qrep.state = "halted" /\ qrep.stop = qrep.emitted)
    /\ (qpc = "returned" /\ qrep.tool = "wait_for_halt" /\ qcur.ack # 0)
           => (qrep.state = "halted" /\ qrep.stop = qcur.ack)

\* C33: once a tool has read a stop notification and none has resumed the
\* target since, debug_status reports 'halted'.
C33_StatusKeepsKnownStop ==
    (qpc = "returned" /\ qrep.tool = "debug_status" /\ qrep.known)
        => qrep.state = "halted"

\* The stop notifications of a batch that no later *running follows.
LastStops(events) ==
    {i \in 1..Len(events) :
        /\ events[i].message = "stopped"
        /\ \A j \in (i + 1)..Len(events) : events[j].message # "running"}

LoadOps == {"command", "monitor", "wait_for_stop"}

InitLoad ==
    /\ lblock = 0
    /\ lpc = [t \in Threads |-> "idle"]
    /\ lop = [t \in Threads |-> "none"]
    /\ ldue = [t \in Threads |-> FALSE]
    /\ lres = [t \in Threads |-> "none"]

\* mi.py:72-78 (monitor, 84-91, calls command), mi.py:116: the call begins.
LCall(t, op) ==
    /\ lpc[t] \in {"idle", "returned"}
    /\ lop' = [lop EXCEPT ![t] = op]
    /\ lpc' = [lpc EXCEPT ![t] = IF op = "wait_for_stop" THEN "w_loop" ELSE "c_lock"]
    /\ ldue' = [ldue EXCEPT ![t] = FALSE]
    /\ lres' = [lres EXCEPT ![t] = "none"]
    /\ UNCHANGED lblock

\* mi.py:80, mi.py:101 `with self._lock:` entered: possible only while the
\* lock is free, and no deadline runs on the wait for it.
LAcquire(t) ==
    /\ lpc[t] \in {"c_lock", "d_lock"}
    /\ lblock = 0
    /\ lblock' = t
    /\ lpc' = [lpc EXCEPT ![t] = IF lpc[t] = "c_lock" THEN "c_io" ELSE "d_io"]
    /\ UNCHANGED <<lop, ldue, lres>>

\* mi.py:81-82: the write returns the responses, or raises when timeout_sec
\* has passed; either way the lock is released.
LCmdIo(t) ==
    /\ lpc[t] = "c_io"
    /\ \E out \in {"result", "GdbTimeoutError"} :
          lres' = [lres EXCEPT ![t] = out]
    /\ lblock' = 0
    /\ lpc' = [lpc EXCEPT ![t] = "returned"]
    /\ UNCHANGED <<lop, ldue>>

\* mi.py:102-109 and 118-123: the drain reads for at most 0.05 s; a stopped
\* event among what it read ends wait_for_stop.
LDrainIo(t) ==
    /\ lpc[t] = "d_io"
    /\ lblock' = 0
    /\ \E stopped \in BOOLEAN :
          /\ lpc' = [lpc EXCEPT ![t] = IF stopped THEN "returned" ELSE "w_loop"]
          /\ lres' = [lres EXCEPT ![t] = IF stopped THEN "StopEvent" ELSE "none"]
    /\ UNCHANGED <<lop, ldue>>

\* mi.py:117 `while time.monotonic() < deadline`, 124-125.
LWaitLoop(t) ==
    /\ lpc[t] = "w_loop"
    /\ lpc' = [lpc EXCEPT ![t] = IF ldue[t] THEN "returned" ELSE "d_lock"]
    /\ lres' = [lres EXCEPT ![t] = IF ldue[t] THEN "None" ELSE "none"]
    /\ UNCHANGED <<lblock, lop, ldue>>

\* The clock reaches the deadline of mi.py:116.
LTick(t) ==
    /\ lop[t] = "wait_for_stop"
    /\ lpc[t] \notin {"idle", "returned"}
    /\ ~ldue[t]
    /\ ldue' = [ldue EXCEPT ![t] = TRUE]
    /\ UNCHANGED <<lblock, lpc, lop, lres>>

\* ========================================================= specifications
NextManager ==
    \E t \in Threads :
        \/ \E n \in Names, e \in BOOLEAN : AttachBegin(t, n, e) /\ UNCHANGED <<bvars, pvars, hvars, ovars, tvars, xvars, lvars, dvars, rvars, evars, qvars>>
        \/ AttachFindPort(t) /\ UNCHANGED <<bvars, pvars, hvars, ovars, tvars, xvars, lvars, dvars, rvars, evars, qvars>>
        \/ AttachOcdStart(t) /\ UNCHANGED <<bvars, pvars, hvars, ovars, tvars, xvars, lvars, dvars, rvars, evars, qvars>>
        \/ AttachGdbStart(t) /\ UNCHANGED <<bvars, pvars, hvars, ovars, tvars, xvars, lvars, dvars, rvars, evars, qvars>>
        \/ AttachLoadSymbols(t) /\ UNCHANGED <<bvars, pvars, hvars, ovars, tvars, xvars, lvars, dvars, rvars, evars, qvars>>
        \/ AttachConnect(t) /\ UNCHANGED <<bvars, pvars, hvars, ovars, tvars, xvars, lvars, dvars, rvars, evars, qvars>>
        \/ AttachRecheck(t) /\ UNCHANGED <<bvars, pvars, hvars, ovars, tvars, xvars, lvars, dvars, rvars, evars, qvars>>
        \/ StopStep(t) /\ UNCHANGED <<bvars, pvars, hvars, ovars, tvars, xvars, lvars, dvars, rvars, evars, qvars>>
        \/ \E n \in Names : Detach(t, n) /\ UNCHANGED <<bvars, pvars, hvars, ovars, tvars, xvars, lvars, dvars, rvars, evars, qvars>>
        \/ \E n \in Names : Get(t, n) /\ UNCHANGED <<bvars, pvars, hvars, ovars, tvars, xvars, lvars, dvars, rvars, evars, qvars>>
        \/ List(t) /\ UNCHANGED <<bvars, pvars, hvars, ovars, tvars, xvars, lvars, dvars, rvars, evars, qvars>>
        \/ DetachAll(t) /\ UNCHANGED <<bvars, pvars, hvars, ovars, tvars, xvars, lvars, dvars, rvars, evars, qvars>>
        \/ Return(t) /\ UNCHANGED <<bvars, pvars, hvars, ovars, tvars, xvars, lvars, dvars, rvars, evars, qvars>>

NextBridge ==
    \/ \E t \in Threads :
        \/ BStart(t) /\ UNCHANGED <<mvars, pvars, hvars, ovars, tvars, xvars, lvars, dvars, rvars, evars, qvars>>
        \/ BStopExit(t) /\ UNCHANGED <<mvars, pvars, hvars, ovars, tvars, xvars, lvars, dvars, rvars, evars, qvars>>
        \/ BStopClear(t) /\ UNCHANGED <<mvars, pvars, hvars, ovars, tvars, xvars, lvars, dvars, rvars, evars, qvars>>
        \/ \E op \in CmdOps : BCmdCheck(t, op) /\ UNCHANGED <<mvars, pvars, hvars, ovars, tvars, xvars, lvars, dvars, rvars, evars, qvars>>
        \/ BCmdAcquire(t) /\ UNCHANGED <<mvars, pvars, hvars, ovars, tvars, xvars, lvars, dvars, rvars, evars, qvars>>
        \/ BCmdWrite(t) /\ UNCHANGED <<mvars, pvars, hvars, ovars, tvars, xvars, lvars, dvars, rvars, evars, qvars>>
        \/ BCmdRead(t) /\ UNCHANGED <<mvars, pvars, hvars, ovars, tvars, xvars, lvars, dvars, rvars, evars, qvars>>
        \/ BConnectSet(t) /\ UNCHANGED <<mvars, pvars, hvars, ovars, tvars, xvars, lvars, dvars, rvars, evars, qvars>>
        \/ BDrainCheck(t) /\ UNCHANGED <<mvars, pvars, hvars, ovars, tvars, xvars, lvars, dvars, rvars, evars, qvars>>
        \/ BDrainAcquire(t) /\ UNCHANGED <<mvars, pvars, hvars, ovars, tvars, xvars, lvars, dvars, rvars, evars, qvars>>
        \/ BDrainRead(t) /\ UNCHANGED <<mvars, pvars, hvars, ovars, tvars, xvars, lvars, dvars, rvars, evars, qvars>>
        \/ BReturn(t) /\ UNCHANGED <<mvars, pvars, hvars, ovars, tvars, xvars, lvars, dvars, rvars, evars, qvars>>
    \/ GdbReply /\ UNCHANGED <<mvars, pvars, hvars, ovars, tvars, xvars, lvars, dvars, rvars, evars, qvars>>
    \/ GdbAsync(AsyncRecords) /\ UNCHANGED <<mvars, pvars, hvars, ovars, tvars, xvars, lvars, dvars, rvars, evars, qvars>>

\* wait_for_stop and drain_events of caller threads, with start and stop of the
\* bridge and the debugger emitting records on its own.
\* One bridge shared by a thread that waits for a stop (1) and a thread that
\* sends commands and drains events (2).
NextShared ==
    \/ gdb = "none" /\ BStart(2) /\ UNCHANGED <<mvars, pvars, hvars, ovars, tvars, xvars, lvars, dvars, rvars, evars, qvars>>
    \/ BWaitBegin(1) /\ UNCHANGED <<mvars, pvars, hvars, ovars, tvars, xvars, lvars, dvars, rvars, evars, qvars>>
    \/ BWaitLoop(1) /\ UNCHANGED <<mvars, pvars, hvars, ovars, tvars, xvars, lvars, dvars, rvars, evars, qvars>>
    \/ BCmdCheck(2, "command") /\ UNCHANGED <<mvars, pvars, hvars, ovars, tvars, xvars, lvars, dvars, rvars, evars, qvars>>
    \/ BCmdAcquire(2) /\ UNCHANGED <<mvars, pvars, hvars, ovars, tvars, xvars, lvars, dvars, rvars, evars, qvars>>
    \/ BCmdWrite(2) /\ UNCHANGED <<mvars, pvars, hvars, ovars, tvars, xvars, lvars, dvars, rvars, evars, qvars>>
    \/ BCmdRead(2) /\ UNCHANGED <<mvars, pvars, hvars, ovars, tvars, xvars, lvars, dvars, rvars, evars, qvars>>
    \/ BDrainCheck(2) /\ UNCHANGED <<mvars, pvars, hvars, ovars, tvars, xvars, lvars, dvars, rvars, evars, qvars>>
    \/ \E t \in Threads :
        \/ BDrainAcquire(t) /\ UNCHANGED <<mvars, pvars, hvars, ovars, tvars, xvars, lvars, dvars, rvars, evars, qvars>>
        \/ BDrainRead(t) /\ UNCHANGED <<mvars, pvars, hvars, ovars, tvars, xvars, lvars, dvars, rvars, evars, qvars>>
        \/ BReturn(t) /\ UNCHANGED <<mvars, pvars, hvars, ovars, tvars, xvars, lvars, dvars, rvars, evars, qvars>>
    \/ GdbReply /\ UNCHANGED <<mvars, pvars, hvars, ovars, tvars, xvars, lvars, dvars, rvars, evars, qvars>>
    \/ GdbStop /\ UNCHANGED <<mvars, pvars, hvars, ovars, tvars, xvars, lvars, dvars, rvars, evars, qvars>>

NextWait ==
    \/ \E t \in Threads :
        \/ BStart(t) /\ UNCHANGED <<mvars, pvars, hvars, ovars, tvars, xvars, lvars, dvars, rvars, evars, qvars>>
        \/ BStopExit(t) /\ UNCHANGED <<mvars, pvars, hvars, ovars, tvars, xvars, lvars, dvars, rvars, evars, qvars>>
        \/ BStopClear(t) /\ UNCHANGED <<mvars, pvars, hvars, ovars, tvars, xvars, lvars, dvars, rvars, evars, qvars>>
        \/ BWaitBegin(t) /\ UNCHANGED <<mvars, pvars, hvars, ovars, tvars, xvars, lvars, dvars, rvars, evars, qvars>>
        \/ BWaitLoop(t) /\ UNCHANGED <<mvars, pvars, hvars, ovars, tvars, xvars, lvars, dvars, rvars, evars, qvars>>
        \/ BDrainCheck(t) /\ UNCHANGED <<mvars, pvars, hvars, ovars, tvars, xvars, lvars, dvars, rvars, evars, qvars>>
        \/ BDrainAcquire(t) /\ UNCHANGED <<mvars, pvars, hvars, ovars, tvars, xvars, lvars, dvars, rvars, evars, qvars>>
        \/ BDrainRead(t) /\ UNCHANGED <<mvars, pvars, hvars, ovars, tvars, xvars, lvars, dvars, rvars, evars, qvars>>
        \/ BReturn(t) /\ UNCHANGED <<mvars, pvars, hvars, ovars, tvars, xvars, lvars, dvars, rvars, evars, qvars>>
    \/ GdbAsync(StopRecords) /\ UNCHANGED <<mvars, pvars, hvars, ovars, tvars, xvars, lvars, dvars, rvars, evars, qvars>>

NextParse ==
    \/ Receive /\ UNCHANGED <<mvars, bvars, hvars, ovars, tvars, xvars, lvars, dvars, rvars, evars, qvars>>
    \/ Parse /\ UNCHANGED <<mvars, bvars, hvars, ovars, tvars, xvars, lvars, dvars, rvars, evars, qvars>>

NextHalt ==
    \/ \E n \in Names : HaltGet(n) /\ UNCHANGED <<mvars, bvars, pvars, ovars, tvars, xvars, lvars, dvars, rvars, evars, qvars>>
    \/ HaltInterrupt /\ UNCHANGED <<mvars, bvars, pvars, ovars, tvars, xvars, lvars, dvars, rvars, evars, qvars>>
    \/ HaltWait1 /\ UNCHANGED <<mvars, bvars, pvars, ovars, tvars, xvars, lvars, dvars, rvars, evars, qvars>>
    \/ HaltTcl /\ UNCHANGED <<mvars, bvars, pvars, ovars, tvars, xvars, lvars, dvars, rvars, evars, qvars>>
    \/ HaltWait2 /\ UNCHANGED <<mvars, bvars, pvars, ovars, tvars, xvars, lvars, dvars, rvars, evars, qvars>>
    \/ HaltReturn /\ UNCHANGED <<mvars, bvars, pvars, ovars, tvars, xvars, lvars, dvars, rvars, evars, qvars>>

NextOcd ==
    \/ OStartLaunch /\ UNCHANGED <<mvars, bvars, pvars, hvars, tvars, xvars, lvars, dvars, rvars, evars, qvars>>
    \/ OStartWait /\ UNCHANGED <<mvars, bvars, pvars, hvars, tvars, xvars, lvars, dvars, rvars, evars, qvars>>
    \/ OStop /\ UNCHANGED <<mvars, bvars, pvars, hvars, tvars, xvars, lvars, dvars, rvars, evars, qvars>>
    \/ OReturn /\ UNCHANGED <<mvars, bvars, pvars, hvars, tvars, xvars, lvars, dvars, rvars, evars, qvars>>
    \/ \E k \in 1..Len(oerr) : OReadLine(k) /\ UNCHANGED <<mvars, bvars, pvars, hvars, tvars, xvars, lvars, dvars, rvars, evars, qvars>>
    \/ OcdWrite /\ UNCHANGED <<mvars, bvars, pvars, hvars, tvars, xvars, lvars, dvars, rvars, evars, qvars>>
    \/ OcdExit /\ UNCHANGED <<mvars, bvars, pvars, hvars, tvars, xvars, lvars, dvars, rvars, evars, qvars>>

NextSession ==
    \E s \in Sids :
        \/ TShutdown(s) /\ UNCHANGED <<mvars, bvars, pvars, hvars, ovars, xvars, lvars, dvars, rvars, evars, qvars>>
        \/ TBridgeExit(s) /\ UNCHANGED <<mvars, bvars, pvars, hvars, ovars, xvars, lvars, dvars, rvars, evars, qvars>>
        \/ TBridgeClear(s) /\ UNCHANGED <<mvars, bvars, pvars, hvars, ovars, xvars, lvars, dvars, rvars, evars, qvars>>
        \/ TOcdStop(s) /\ UNCHANGED <<mvars, bvars, pvars, hvars, ovars, xvars, lvars, dvars, rvars, evars, qvars>>
        \/ TReturn(s) /\ UNCHANGED <<mvars, bvars, pvars, hvars, ovars, xvars, lvars, dvars, rvars, evars, qvars>>
        \/ TGdbDies(s) /\ UNCHANGED <<mvars, bvars, pvars, hvars, ovars, xvars, lvars, dvars, rvars, evars, qvars>>
        \/ TOcdDies(s) /\ UNCHANGED <<mvars, bvars, pvars, hvars, ovars, xvars, lvars, dvars, rvars, evars, qvars>>

NextTools ==
    \/ \E n \in Names, out \in AttachOutcomes : XAttach(n, out) /\ UNCHANGED <<mvars, bvars, pvars, hvars, ovars, tvars, lvars, dvars, rvars, evars, qvars>>
    \/ \E tool \in NamedTools, n \in Names : XBegin(tool, n) /\ UNCHANGED <<mvars, bvars, pvars, hvars, ovars, tvars, lvars, dvars, rvars, evars, qvars>>
    \/ XBody /\ UNCHANGED <<mvars, bvars, pvars, hvars, ovars, tvars, lvars, dvars, rvars, evars, qvars>>
    \/ XReturn /\ UNCHANGED <<mvars, bvars, pvars, hvars, ovars, tvars, lvars, dvars, rvars, evars, qvars>>

NextLoad ==
    \E t \in Threads :
        \/ \E op \in LoadOps : LCall(t, op) /\ UNCHANGED <<mvars, bvars, pvars, hvars, ovars, tvars, xvars, dvars, rvars, evars, qvars>>
        \/ LAcquire(t) /\ UNCHANGED <<mvars, bvars, pvars, hvars, ovars, tvars, xvars, dvars, rvars, evars, qvars>>
        \/ LCmdIo(t) /\ UNCHANGED <<mvars, bvars, pvars, hvars, ovars, tvars, xvars, dvars, rvars, evars, qvars>>
        \/ LDrainIo(t) /\ UNCHANGED <<mvars, bvars, pvars, hvars, ovars, tvars, xvars, dvars, rvars, evars, qvars>>
        \/ LWaitLoop(t) /\ UNCHANGED <<mvars, bvars, pvars, hvars, ovars, tvars, xvars, dvars, rvars, evars, qvars>>
        \/ LTick(t) /\ UNCHANGED <<mvars, bvars, pvars, hvars, ovars, tvars, xvars, dvars, rvars, evars, qvars>>

\* What the scheduling gives a thread: a step it can take at every moment from
\* some moment on is taken (a thread that can run is run, a timed read ends,
\* the clock advances). threading.Lock promises no order among the threads
\* waiting for it, so nothing stronger holds of LAcquire.
FairLoad ==
    \A t \in Threads :
        /\ WF_vars(LAcquire(t) /\ UNCHANGED <<mvars, bvars, pvars, hvars, ovars, tvars, xvars, dvars, rvars, evars, qvars>>)
        /\ WF_vars(LCmdIo(t) /\ UNCHANGED <<mvars, bvars, pvars, hvars, ovars, tvars, xvars, dvars, rvars, evars, qvars>>)
        /\ WF_vars(LDrainIo(t) /\ UNCHANGED <<mvars, bvars, pvars, hvars, ovars, tvars, xvars, dvars, rvars, evars, qvars>>)
        /\ WF_vars(LWaitLoop(t) /\ UNCHANGED <<mvars, bvars, pvars, hvars, ovars, tvars, xvars, dvars, rvars, evars, qvars>>)
        /\ WF_vars(LTick(t) /\ UNCHANGED <<mvars, bvars, pvars, hvars, ovars, tvars, xvars, dvars, rvars, evars, qvars>>)

NextSvd ==
    \/ dpc = "new" /\ \E dev \in Devices : DbBuild(dev) /\ UNCHANGED <<mvars, bvars, pvars, hvars, ovars, tvars, xvars, lvars, rvars, evars, qvars>>
    \/ \E pn \in PeriphNames, rn \in RegNames, raw \in RawValues : DbDecode(pn, rn, raw) /\ UNCHANGED <<mvars, bvars, pvars, hvars, ovars, tvars, xvars, lvars, rvars, evars, qvars>>
    \/ \E a \in Addrs : DbLookup(a) /\ UNCHANGED <<mvars, bvars, pvars, hvars, ovars, tvars, xvars, lvars, rvars, evars, qvars>>

NextPeriph ==
    \/ rpc = "idle" /\ \E regs \in Peripherals : RBegin(regs) /\ UNCHANGED <<mvars, bvars, pvars, hvars, ovars, tvars, xvars, lvars, dvars, evars, qvars>>
    \/ \E ans \in Answers(IF rpc = "bulk" THEN Span(rp) ELSE 0) : RBulk(ans) /\ UNCHANGED <<mvars, bvars, pvars, hvars, ovars, tvars, xvars, lvars, dvars, evars, qvars>>
    \/ \E ans \in Answers(IF rpc = "sparse" /\ ridx <= Len(rp) THEN rp[ridx].size \div 8 ELSE 0) :
          RSparseRead(ans) /\ UNCHANGED <<mvars, bvars, pvars, hvars, ovars, tvars, xvars, lvars, dvars, evars, qvars>>
    \/ RSparseReturn /\ UNCHANGED <<mvars, bvars, pvars, hvars, ovars, tvars, xvars, lvars, dvars, evars, qvars>>

NextEnsure ==
    \E t \in Threads :
        \/ \E s \in Sids : EnsureCheck(t, s) /\ UNCHANGED <<mvars, bvars, pvars, hvars, ovars, tvars, xvars, lvars, dvars, rvars, qvars>>
        \/ \E ok \in BOOLEAN : EnsureLoad(t, ok) /\ UNCHANGED <<mvars, bvars, pvars, hvars, ovars, tvars, xvars, lvars, dvars, rvars, qvars>>
        \/ EnsureStore(t) /\ UNCHANGED <<mvars, bvars, pvars, hvars, ovars, tvars, xvars, lvars, dvars, rvars, qvars>>

NextState ==
    \/ \E dict \in BOOLEAN : TargetStops(dict) /\ UNCHANGED <<mvars, bvars, pvars, hvars, ovars, tvars, xvars, lvars, dvars, rvars, evars>>
    \/ \E tool \in StateTools : QBegin(tool) /\ UNCHANGED <<mvars, bvars, pvars, hvars, ovars, tvars, xvars, lvars, dvars, rvars, evars>>
    \/ \E ok \in BOOLEAN : QBreakInsert(ok) /\ UNCHANGED <<mvars, bvars, pvars, hvars, ovars, tvars, xvars, lvars, dvars, rvars, evars>>
    \/ \E again, late \in BOOLEAN : QResume(again, late) /\ UNCHANGED <<mvars, bvars, pvars, hvars, ovars, tvars, xvars, lvars, dvars, rvars, evars>>
    \/ \E last \in BOOLEAN : QWaitPoll(last) /\ UNCHANGED <<mvars, bvars, pvars, hvars, ovars, tvars, xvars, lvars, dvars, rvars, evars>>
    \/ QDrain /\ UNCHANGED <<mvars, bvars, pvars, hvars, ovars, tvars, xvars, lvars, dvars, rvars, evars>>
    \/ QSnapshotRead /\ UNCHANGED <<mvars, bvars, pvars, hvars, ovars, tvars, xvars, lvars, dvars, rvars, evars>>

Init == InitManager /\ InitBridge /\ InitParse /\ InitHalt /\ InitOcd /\ InitSession /\ InitTools /\ InitLoad /\ InitSvd /\ InitPeriph /\ InitEnsure /\ InitState

SpecManager == Init /\ [][NextManager]_vars
SpecBridge == Init /\ [][NextBridge]_vars
SpecParse == Init /\ [][NextParse]_vars
SpecWait == Init /\ [][NextWait]_vars
SpecShared == Init /\ [][NextShared]_vars
SpecHalt == Init /\ [][NextHalt]_vars
SpecOcd == Init /\ [][NextOcd]_vars
SpecSession == Init /\ [][NextSession]_vars
SpecTools == Init /\ [][NextTools]_vars
SpecLoad == Init /\ [][NextLoad]_vars /\ FairLoad
SpecSvd == Init /\ [][NextSvd]_vars
SpecPeriph == Init /\ [][NextPeriph]_vars
SpecEnsure == Init /\ [][NextEnsure]_vars
SpecState == Init /\ [][NextState]_vars

\* ======================================================= SessionManager claims
Registered == SeqRange(DictValues(sessions))

IOPcs == {"a_port", "a_ocd", "a_gdb", "a_sym", "a_conn", "stopping"}

\* The steps an attach has to complete, in order, before its session may be seen.
RequiredSteps(elf) ==
    IF elf THEN <<"port", "ocd", "gdb", "sym", "conn">>
    ELSE <<"port", "ocd", "gdb", "conn">>

\* C1: the registry never holds two entries of one name, and an attach that
\* finds its name taken at the recheck fails with 'already exists' after its own
\* session has been shut down (debugger and adapter stopped), the registered
\* session of that name being another one, left in place.
C1_CollisionFailsAlreadyExists ==
    /\ \A i, j \in 1..Len(sessions) : sessions[i].name = sessions[j].name => i = j
    /\ \A t \in Threads :
         (result[t].op = "attach" /\ result[t].stage = "recheck") =>
            /\ result[t].err = "AlreadyExists"
            /\ sess[result[t].sid].gdb = "none"
            /\ ~OcdAlive(sess[result[t].sid].proc)
            /\ result[t].sid \notin Registered

\* C2: an attach that failed in adapter start, debugger start, symbol load or
\* connect raises the original failure, after stop was invoked on the legs
\* (debugger first, then adapter), and its session is not registered.
C2_FailureCleansUpAndReraises ==
    \A t \in Threads :
        (result[t].op = "attach" /\ result[t].stage \in {"ocd", "gdb", "sym", "conn"}) =>
            /\ result[t].err = result[t].orig
            /\ result[t].sid \notin Registered
            /\ LET st == sess[result[t].sid].stops IN
               IF result[t].stage = "ocd"
                 THEN st # <<>> /\ SeqRange(st) = {"ocd"}
                 ELSE st = <<"bridge", "ocd">>

\* C3: no thread holds the SessionManager lock while it is at a port scan, an
\* adapter or debugger start, a debugger command or a stop of a shutdown.
C3_NoIOUnderLock ==
    \A t \in Threads : lock = t => pc[t] \notin IOPcs

\* C4: every session the registry holds, and every session a get or list
\* returned, has completed port allocation, adapter start, debugger start,
\* symbol load (when a symbol path is given) and connect, in this order, each
\* with a non-error outcome.
C4_VisibleOnlyWhenBuilt ==
    \A s \in Registered
             \cup UNION {{result[t].sid} \cup SeqRange(result[t].val) :
                          t \in {u \in Threads : result[u].op \in {"get", "list"}}} :
        s # 0 => sess[s].steps = RequiredSteps(sess[s].elf)

C4_Witness ==
    \E t, u \in Threads :
        /\ result[t].op = "get" /\ result[t].sid # 0 /\ sess[result[t].sid].elf
        /\ result[u].op = "list" /\ result[u].val # <<>>

\* C5: an attach whose name is registered when it makes its first check fails
\* there with 'already exists': nothing is scanned or launched, no session
\* object changes, and the registry stays as it was.
AttachStarts(t, n) ==
    /\ pc[t] = "idle"
    /\ \/ pc'[t] = "a_port" /\ cur'[t].name = n
       \/ pc'[t] = "returned" /\ result'[t].op = "attach" /\ result'[t].name = n

C5_DuplicateFailsFast ==
    [][\A t \in Threads, n \in Names :
          (AttachStarts(t, n) /\ n \in {sessions[i].name : i \in 1..Len(sessions)}) =>
              /\ pc'[t] = "returned"
              /\ result'[t].err = "AlreadyExists"
              /\ result'[t].stage = "check"
              /\ sessions' = sessions
              /\ sess' = sess]_mvars

C5_Witness ==
    \E t \in Threads :
        /\ result[t].op = "attach" /\ result[t].stage = "check"
        /\ result[t].err = "AlreadyExists"
        /\ result[t].name \in {sessions[i].name : i \in 1..Len(sessions)}

\* ============================================================ MiBridge claims
Exchange == {"c_write", "c_read", "d_read"}

\* C6: at most one thread at a time is inside a debugger exchange (the write of
\* a command with the read and parse of its batch, or a drain_events poll).
C6_OneExchangeAtATime ==
    \A t, u \in Threads : t # u => ~(bpc[t] \in Exchange /\ bpc[u] \in Exchange)

C6_Witness ==
    \E t, u \in Threads :
        /\ t # u
        /\ bpc[t] = "c_read"
        /\ bpc[u] \in {"c_lock", "d_lock"}

\* C7: the result a command returns has the message and payload of the result
\* record the debugger emitted for that very command.
C7_ResultIsOwn ==
    \A t \in Threads :
        (bpc[t] = "returned" /\ bres[t].op \in CmdOps /\ bres[t].kind = "returned") =>
            bres[t].res.payload = bres[t].cmd

\* C9: a transport timeout of a command reaches the caller as a raised timeout
\* failure, never as a returned result; a batch whose result record is an error
\* reaches the caller as a returned result with is_error, never as a failure.
C9_TimeoutRaisedErrorReturned ==
    \A t \in Threads :
        (bpc[t] = "returned" /\ bres[t].op \in CmdOps) =>
            /\ bres[t].io = "timeout" =>
                  bres[t].kind = "raised" /\ bres[t].err = "GdbTimeoutError"
            /\ (bres[t].io = "batch" /\ bres[t].reply = "error") =>
                  bres[t].kind = "returned" /\ is_error(bres[t].res.message)
            /\ (bres[t].kind = "returned" /\ is_error(bres[t].res.message)) =>
                  bres[t].io = "batch"

C9_Witness ==
    \E t, u \in Threads :
        /\ bpc[t] = "returned" /\ bres[t].op \in CmdOps /\ bres[t].io = "timeout"
        /\ bpc[u] = "returned" /\ bres[u].op \in CmdOps /\ bres[u].reply = "error"

\* C10: a command, monitor, connect or load_symbols started while the bridge
\* has no debugger fails at once with 'not running', writes nothing and leaves
\* the connected flag alone; drain_events started then returns the empty list.
CmdStarts(t) ==
    /\ bpc[t] = "idle"
    /\ \/ bpc'[t] = "c_lock"
       \/ bpc'[t] = "returned" /\ bres'[t].op \in CmdOps

DrainStarts(t) ==
    /\ bpc[t] = "idle"
    /\ \/ bpc'[t] = "d_lock"
       \/ bpc'[t] = "returned" /\ bres'[t].op = "drain_events"

C10_NotRunningFailsFast ==
    [][\A t \in Threads :
          gdb = "none" =>
            /\ CmdStarts(t) =>
                  /\ bpc'[t] = "returned"
                  /\ bres'[t].kind = "raised" /\ bres'[t].err = "NotRunning"
                  /\ inbox' = inbox /\ nextCmd' = nextCmd
                  /\ connected' = connected
                  /\ block' = block
            /\ DrainStarts(t) =>
                  /\ bpc'[t] = "returned"
                  /\ bres'[t].kind = "returned" /\ bres'[t].res.events = <<>>
                  /\ block' = block]_vars

C10_Witness ==
    \E t, u \in Threads :
        /\ gdb = "none" /\ gen > 0
        /\ bpc[t] = "returned" /\ bres[t].op = "monitor" /\ bres[t].err = "NotRunning"
        /\ bpc[u] = "returned" /\ bres[u].op = "drain_events"

\* ================================================== from_responses claims
Pos(type) == {i \in 1..Len(batch) : batch[i].type = type}

\* C8: of a batch holding a result record, one result record gives message and
\* payload, and every other record of the batch is kept in events or in
\* console_output.
C8_NoRecordDropped ==
    (done /\ Pos("result") # {}) =>
        /\ \E i \in Pos("result") :
              parsed.message = batch[i].message /\ parsed.payload = batch[i].payload
        /\ Len(parsed.events) + Len(parsed.console_output) = Len(batch) - 1

\* ================================================= MiBridge state claims
\* A step of MiBridge.stop of thread t that ends the call.
StopEnds(t) ==
    /\ bpc[t] \in {"idle", "s_clear"}
    /\ bpc'[t] = "returned"
    /\ bres'[t].op = "stop"

\* C11: a bridge that is connected never becomes not-connected, and a bridge
\* that is started (has a debugger handle) never becomes not-started.
C11_NeverBackward ==
    [][(connected => connected') /\ (gdb # "none" => gdb' # "none")]_bvars

\* C11, amended: only stop moves a bridge backward; start, connect,
\* load_symbols, command, monitor and drain_events leave a connected bridge
\* connected and a started bridge started.
C11_OnlyStopMovesBack ==
    [][((connected /\ ~connected') \/ (gdb # "none" /\ gdb' = "none")) =>
          \E t \in Threads : StopEnds(t)]_bvars

C11_Witness ==
    \E t, u \in Threads :
        /\ bpc[t] = "returned" /\ bres[t].op = "stop"
        /\ bpc[u] = "returned" /\ bres[u].op = "connect" /\ bres[u].kind = "returned"
        /\ ~is_error(bres[u].res.message)
        /\ gen > 0 /\ gdb = "none" /\ ~connected

\* ============================================ wait_for_stop, drain_events
\* C12: wait_for_stop never raises; it returns a StopEvent only when a poll of
\* the call drained a stop notification with a dict payload, the event being
\* built from the first such notification of that poll; it returns None only
\* once the deadline was seen passed, no poll of the call having drained one.
C12_WaitForStop ==
    \A t \in Threads :
        (bpc[t] = "returned" /\ bres[t].op = "wait_for_stop") =>
            LET r == bres[t].res IN
            /\ bres[t].kind = "returned"
            /\ r.message \in {"StopEvent", "None"}
            /\ r.message = "StopEvent" =>
                  \E i \in 1..Len(r.events) :
                     /\ r.events[i].type = "notify"
                     /\ r.events[i].message = "stopped"
                     /\ r.events[i].payload # 0
                     /\ r.payload = r.events[i].payload
                     /\ \A j \in 1..(i - 1) :
                           ~(r.events[j].message = "stopped" /\ r.events[j].payload # 0)
            /\ r.message = "None" => bres[t].io = "late"

C12_Witness ==
    \E t, u \in Threads :
        /\ bpc[t] = "returned" /\ bres[t].op = "wait_for_stop"
        /\ bres[t].res.message = "StopEvent" /\ Len(bres[t].res.events) = 2
        /\ bres[t].res.events[1].payload = 0
        /\ bpc[u] = "returned" /\ bres[u].op = "wait_for_stop"
        /\ bres[u].res.message = "None"

\* C13: a drain_events call never waits for another caller (the lock is free
\* whenever it comes to take it), it returns only notify records and it never
\* raises.
C13_DrainNeverWaits ==
    \A t \in Threads :
        /\ (bpc[t] = "d_lock" /\ bcur[t].op = "drain_events") => block = 0
        /\ (bpc[t] = "returned" /\ bres[t].op = "drain_events") =>
              /\ bres[t].kind = "returned"
              /\ \A i \in 1..Len(bres[t].res.events) : bres[t].res.events[i].type = "notify"

\* ============================================================ halt claims
\* C14: a halt whose interrupt timed out, whose control-socket halt succeeded
\* and whose wait drained no stop notification replies state 'halted' with the
\* fallback method and the desynchronization warning, and no 'error' entry.
C14_DesyncIsHalted ==
    (hpc = "done" /\ hloc.interrupt = "timeout" /\ hloc.tcl = "ok" /\ hloc.wait2 = 0) =>
        /\ hrep.kind = "returned"
        /\ hrep.state = "halted"
        /\ hrep.method = "openocd_tcl"
        /\ hrep.warning = "desync"
        /\ hrep.error = NoError

C14_Witness ==
    /\ hpc = "done" /\ hloc.interrupt = "timeout" /\ hloc.tcl = "ok" /\ hloc.wait2 = 0
    /\ hrep.state = "halted"

\* C15: the control-socket halt is sent only after the interrupt command ended
\* in a transport timeout.
C15_FallbackOnlyOnTimeout ==
    hloc.tcl # "none" => hloc.interrupt = "timeout"

\* C16: when the debugger answers the interrupt with an error result, halt
\* replies an 'error' entry carrying the debugger's message.
C16_ErrorIsReported ==
    (hpc = "done" /\ hloc.interrupt = "error") =>
        /\ hrep.kind = "returned"
        /\ hrep.error = [from |-> "debugger", msg |-> error_msg(hloc.result)]

\* C17: when the interrupt is acknowledged without error and no stop
\* notification is found in its batch nor by the wait, halt replies state
\* 'unknown' with a warning.
C17_NoStopIsUnknown ==
    (hpc = "done" /\ hloc.interrupt = "ack" /\ stop_from_result(hloc.result) = 0
       /\ hloc.wait1 = 0) =>
        /\ hrep.kind = "returned"
        /\ hrep.state = "unknown"
        /\ hrep.warning # ""

MarkerRead ==
    \E i \in 1..Len(olog) : olog[i].listening /\ olog[i].port = GDB_PORT_START

\* C19: start returns normally only when the readiness marker naming the
\* configured port was read; a start that finds the subprocess exited at the
\* timeout raises with the captured log; a start that finds it running at the
\* timeout terminates it and raises the timeout failure; after any failed
\* start no subprocess launched by that call is still running.
C19_StartOutcomes ==
    (opc = "returned" /\ ores.op = "start") =>
        /\ ores.kind = "returned" => MarkerRead
        /\ ores.err = "Exited" =>
               /\ oproc = "exited"
               /\ ores.log = SubSeq(olog, 1, Len(ores.log))
        /\ (ores.kind = "raised" /\ ores.launched # 0 /\ ores.err # "Exited") =>
               /\ ores.err = "NotReady"
               /\ ores.sig # <<>>
        /\ (ores.kind = "raised" /\ ores.launched # 0) => ~OcdAlive(oproc)

\* C20: stop on an adapter with no subprocess does nothing; on a running one
\* it requests termination, returns and leaves the adapter not alive; a
\* further stop call changes no state and signals no process.
C20_StopIdempotent ==
    (opc = "returned" /\ ores.op = "stop") =>
        /\ ores.before = "none" =>
               /\ ores.kind = "returned" /\ ores.sig = <<>> /\ oproc = "none"
        /\ ores.before = "running" =>
               /\ ores.kind = "returned"
               /\ ores.sig # <<>> /\ Head(ores.sig) = "TERM"
               /\ ~OcdAlive(oproc)
        /\ ores.again =>
               /\ ores.kind = "returned" /\ ores.sig = <<>> /\ oproc = ores.before

\* ===================================================== detach, detach_all
DetachStarts(t, n) ==
    /\ pc[t] = "idle"
    /\ \/ pc'[t] = "stopping" /\ cur'[t].op = "detach" /\ cur'[t].name = n
       \/ pc'[t] = "returned" /\ result'[t].op = "detach" /\ result'[t].name = n

\* A detach of thread t that has removed session s and has not ended yet.
Detaching(t, s) == pc[t] = "stopping" /\ cur[t].op = "detach" /\ cur[t].sid = s

\* C21: detach removes the entry in one step, in which no leg is touched, and
\* shuts the session down afterwards without holding the lock; with a name
\* that is not registered it fails with 'No session named' and the registry
\* and the sessions stay as they were; of the threads that detach one name
\* concurrently one removes the entry and shuts the session down, once, and
\* no other one gets hold of that session.
C21_DetachOnce ==
    /\ [][\A t \in Threads, n \in Names :
            DetachStarts(t, n) =>
               /\ sess' = sess
               /\ lock' = 0
               /\ IF NameTaken(sessions, n)
                    THEN /\ pc'[t] = "stopping"
                         /\ cur'[t].sid = DictGet(sessions, n)
                         /\ ~NameTaken(sessions', n)
                         /\ \A m \in Names \ {n} : DictGet(sessions', m) = DictGet(sessions, m)
                    ELSE /\ pc'[t] = "returned"
                         /\ result'[t].err = "NoSession"
                         /\ sessions' = sessions]_mvars
    /\ [](\A t \in Threads, s \in Sids :
            Detaching(t, s) =>
               /\ lock # t
               /\ s \notin Registered
               /\ \A u \in Threads \ {t} : ~Detaching(u, s)
               /\ sess[s].stops \in {<<>>, <<"bridge">>})
    /\ [](\A t \in Threads :
            (pc[t] = "returned" /\ result[t].op = "detach" /\ result[t].err # "NoSession") =>
               sess[result[t].sid].stops = <<"bridge", "ocd">>)

C21_Witness ==
    \E t, u \in Threads :
        /\ Detaching(t, cur[t].sid) /\ sess[cur[t].sid].stops = <<"bridge">>
        /\ pc[u] = "returned" /\ result[u].op = "detach"
        /\ result[u].name = cur[t].name /\ result[u].err = "NoSession"

DetachAllStarts(t) ==
    /\ pc[t] = "idle"
    /\ \/ pc'[t] = "stopping" /\ cur'[t].op = "detach_all"
       \/ pc'[t] = "returned" /\ result'[t].op = "detach_all"

\* C22: detach_all empties the registry in one step, in which no leg is
\* touched; it does not raise; when it has ended, stop has been invoked on the
\* bridge and then on the adapter of every session that was registered at
\* that step, once each, also after the stop of an earlier session raised.
C22_DetachAllDrains ==
    /\ [][\A t \in Threads :
            DetachAllStarts(t) =>
               /\ sessions' = <<>>
               /\ sess' = sess
               /\ lock' = 0
               /\ IF sessions = <<>>
                    THEN pc'[t] = "returned" /\ result'[t].val = <<>>
                    ELSE pc'[t] = "stopping" /\ cur'[t].val = DictValues(sessions)]_mvars
    /\ [](\A t \in Threads :
            (pc[t] = "returned" /\ result[t].op = "detach_all") =>
               /\ result[t].err = "ok"
               /\ \A s \in SeqRange(result[t].val) : sess[s].stops = <<"bridge", "ocd">>)

\* Two sessions were drained, and the adapter of the first did not stop.
C22_Witness ==
    \E t \in Threads :
        /\ pc[t] = "returned" /\ result[t].op = "detach_all"
        /\ Len(result[t].val) = 2
        /\ OcdAlive(sess[result[t].val[1]].proc)
        /\ sess[result[t].val[2]].stops = <<"bridge", "ocd">>

\* ================================================== DebugSession.shutdown
\* C23: a shutdown that has ended, returning or raising, has invoked stop on
\* the bridge and then on the adapter, whatever it found the two subprocesses
\* to be and however the debugger's exit went; when it has returned, the
\* bridge is not connected and the adapter is not alive.
C23_ShutdownStopsBoth ==
    \A s \in Sids :
        /\ tpc[s] = "returned" => tres[s].stops = <<"bridge", "ocd">>
        /\ (tpc[s] = "returned" /\ tres[s].kind = "returned") =>
              /\ ~tconn[s]
              /\ tgdb[s] = "none"
              /\ ~OcdAlive(tproc[s])

\* Both subprocesses were dead already and the debugger's exit failed.
C23_Witness ==
    \E s \in Sids :
        /\ tpc[s] = "returned" /\ tres[s].kind = "returned"
        /\ tres[s].found = <<"exited", "exited">>
        /\ tres[s].exit = "failed"

\* ============================================== the exposed tool operations
\* C24: a tool that takes a session name and is invoked with a name that is
\* not registered returns an 'error' entry, reaches no session's debugger or
\* adapter, and leaves the registry as it was.
C24_UnknownNameIsError ==
    (xpc = "returned" /\ xrep.tool \in NamedTools /\ ~NameTaken(xrep.before, xrep.name)) =>
        /\ xrep.kind = "returned"
        /\ xrep.error # ""
        /\ ~xrep.touched
        /\ xreg = xrep.before

\* Another session is registered, and the name given is not.
C24_Witness ==
    /\ xpc = "returned" /\ xrep.tool = "debug_detach"
    /\ xrep.before # <<>> /\ ~NameTaken(xrep.before, xrep.name)
    /\ xrep.error = "ValueError"

\* The stops halt has seen during the call: in the batch of the interrupt or
\* from one of its two waits.
ObservedStops ==
    {st \in {stop_from_result(hloc.result), hloc.wait1, hloc.wait2} : st > 0}

\* C36: halt replies state 'halted' only if it has seen a stop notification
\* during the call or the control-socket halt has succeeded; the reply has
\* the fallback method tag exactly when the control-socket halt was used,
\* and a stop reason and frame only from a stop notification it has seen.
C36_HaltedIsGrounded ==
    hpc = "done" =>
        /\ hrep.state = "halted" => (ObservedStops # {} \/ hloc.tcl = "ok")
        /\ hrep.method = "openocd_tcl" <=> hloc.tcl = "ok"
        /\ hrep.stop # 0 => hrep.stop \in ObservedStops

C36_Witness ==
    /\ hpc = "done" /\ hloc.interrupt = "ack" /\ hloc.wait1 = 0
    /\ hloc.tcl = "ok" /\ hloc.wait2 = 0
    /\ hrep.state = "halted" /\ hrep.method = "openocd_tcl" /\ hrep.stop = 0

\* C37: a stop notification that the debugger emits while a thread is
\* inside wait_for_stop is returned by that wait_for_stop, whatever command
\* and drain_events calls other threads make on the bridge meanwhile: when
\* the notification leaves the stream during the wait, it is the waiting
\* thread that returns with it.
C37_StopReachesTheWaiter ==
    [][\A t \in Threads :
          (Waiting(t) /\ bcur[t].owed # 0 /\ HasDictStop(stream) /\ ~HasDictStop(stream'))
              => (bpc'[t] = "returned" /\ bres'[t].res.message = "StopEvent")]_vars

\* C38: stop never tears the debugger down while the exchange of another
\* thread's command is in progress; a command that has passed the running
\* check never works on a handle that a concurrent stop has cleared; a
\* command that races with stop completes normally or fails with the 'not
\* running' failure.
C38_StopWaitsForExchanges ==
    \A t \in Threads :
        /\ bpc[t] = "c_read" => (gdb = "running" /\ gen = bcur[t].gen)
        /\ (bpc[t] = "returned" /\ bres[t].op \in {"command", "connect"})
              => bres[t].err \notin {"AttributeError", "TransportError"}

\* C39: a debug_attach call that replies an 'error' entry has added no
\* session to the registry, also when it is the 'reset halt' after the
\* attach that fails or times out.
C39_ErrorReplyRegistersNothing ==
    (xpc = "returned" /\ xrep.tool = "debug_attach" /\ xrep.kind = "returned"
       /\ xrep.error # "")
        => xreg = xrep.before

\* C40: two attach calls that overlap never hold the same debug-server
\* port: a port that one attach has selected is not selected by another
\* before the first one's adapter listens on it or the first attach has
\* given up.
C40_SelectedPortIsReserved ==
    \A t, u \in Threads :
        (t # u /\ pc[t] = "a_ocd" /\ pc[u] = "a_ocd")
            => sess[cur[t].sid].port # sess[cur[u].sid].port

\* A session that is still registered: nothing has begun to shut it down.
NotShutDown(s) == tpc[s] = "idle" /\ tcalls[s] = 0

\* C35: when the debugger or the adapter subprocess of a registered session
\* has died, is_alive is false and debug_status reports 'disconnected';
\* is_alive is true only while both subprocesses run and the bridge is
\* connected.
C35_DeadSubprocessIsNotAlive ==
    \A s \in Sids :
        NotShutDown(s) =>
            /\ (tgdb[s] # "running" \/ tproc[s] # "running") => Disconnected(s)
            /\ is_alive(s) => (tgdb[s] = "running" /\ tproc[s] = "running" /\ tconn[s])

\* C25: no tool operation raises to its caller; each returns a success
\* payload or an 'error' description.
C25_NoToolRaises ==
    xpc = "returned" => xrep.kind = "returned"

\* ==================================================== blocking calls claims
\* C26: every call of command, monitor and wait_for_stop that has begun
\* eventually returns, also while other threads keep calling the same bridge.
C26_EveryCallReturns ==
    \A t \in Threads : (lpc[t] \notin {"idle", "returned"}) ~> (lpc[t] = "returned")

\* ======================================================= PeripheralDb claims
\* The register a (peripheral, register) name pair resolves to, if any.
Resolved(pn, rn) ==
    LET p == get_peripheral(device, pn) IN
    IF p = <<>> THEN <<>> ELSE get_register(p[1], rn)

\* C27: decode_register gives one decoded field per declared field of the
\* resolved register, in declared order, and bit k of a field's value is bit
\* o+k of the raw value for k < w, no other bit being set.
C27_DecodeExtractsFields ==
    (dpc = "done" /\ dout.op = "decode_register"
       /\ Resolved(dout.peripheral, dout.register) # <<>>) =>
        LET decl == Resolved(dout.peripheral, dout.register)[1].fields
            got == dout.out.fields IN
        /\ dout.out.kind = "DecodedRegister"
        /\ Len(got) = Len(decl)
        /\ \A i \in 1..Len(decl) :
              /\ got[i].name = decl[i].name
              /\ got[i].value =
                    {k \in 0..(decl[i].bit_width - 1) : (decl[i].bit_offset + k) \in dout.raw}

C27_Witness ==
    /\ dpc = "done" /\ dout.op = "decode_register" /\ dout.raw = WordBits
    /\ dout.out.kind = "DecodedRegister" /\ dout.register = "CR"
    /\ dout.out.fields[1].value = {0, 1} /\ dout.out.fields[3].value = {0}

\* The registers of the database that sit at an address.
OwnersOf(a) ==
    {<<device[ij[1]].name, device[ij[1]].registers[ij[2]].name>> :
        ij \in {x \in (1..Len(device)) \X (1..Cardinality(RegNames)) :
                  /\ x[2] <= Len(device[x[1]].registers)
                  /\ device[x[1]].base_address
                        + device[x[1]].registers[x[2]].address_offset = a}}

\* C28: lookup_address gives a register sitting exactly at the address when
\* there is one, and None (here <<>>) when there is none.
C28_LookupIsExact ==
    (dpc = "done" /\ dout.op = "lookup_address") =>
        IF OwnersOf(dout.address) = {} THEN dout.out = <<>>
        ELSE dout.out \in OwnersOf(dout.address)

C28_Witness ==
    /\ dpc = "done" /\ dout.op = "lookup_address"
    /\ Cardinality(OwnersOf(dout.address)) = 2
    /\ Len(device) = 2 /\ device[1].base_address > device[2].base_address
    /\ dout.out \in OwnersOf(dout.address)

\* ==================================================== read_peripheral claims
\* The register block of a peripheral: from the lowest register start to the
\* highest register end.
BlockSpan(regs) ==
    LET starts == {regs[i].address_offset : i \in 1..Len(regs)}
        ends == {regs[i].address_offset + regs[i].size \div 8 : i \in 1..Len(regs)}
    IN (CHOOSE e \in ends : \A f \in ends : f <= e)
         - (CHOOSE b \in starts : \A c \in starts : b <= c)

\* Every read issued was answered with all the bytes asked for.
AllAnswered ==
    \A i \in 1..Len(rgot) : rgot[i].kind = "data" /\ rgot[i].len = rreads[i].count

\* C29: a peripheral whose register block spans at most 4096 bytes is read
\* with exactly one command, one with a larger block with one command per
\* register; in bulk mode every register lying inside the block that came
\* back is in the result, taken from its own address.
C29_OneReadOrOnePerRegister ==
    (rpc = "returned" /\ rp # <<>>) =>
        /\ BlockSpan(rp) <= BulkLimit => Len(rreads) = 1
        /\ (BlockSpan(rp) > BulkLimit /\ AllAnswered) => Len(rreads) = Len(rp)
        /\ (rrep.mode = "bulk" /\ rgot[1].kind = "data") =>
              /\ rrep.kind = "returned"
              /\ \A i \in 1..Len(rp) :
                    LET at == PBase + rp[i].address_offset
                        n == rp[i].size \div 8 IN
                    (rreads[1].addr <= at /\ at + n <= rreads[1].addr + rgot[1].len) =>
                        \E k \in 1..Len(rrep.registers) :
                            rrep.registers[k] = [register |-> rp[i].name, at |-> at, n |-> n]

\* Whether the read of register i gave the bytes of the register.
ReadOk(i) == i <= Len(rgot) /\ rgot[i].kind = "data" /\ rgot[i].len >= rp[i].size \div 8

\* The registers read successfully, in declared order, from register i on.
RECURSIVE ReadRegs(_)
ReadRegs(i) ==
    IF i > Len(rp) THEN <<>>
    ELSE (IF ReadOk(i)
          THEN <<[register |-> rp[i].name, at |-> PBase + rp[i].address_offset,
                  n |-> rp[i].size \div 8]>>
          ELSE <<>>) \o ReadRegs(i + 1)

\* C30: in sparse mode the call does not fail: every register is read, the
\* ones whose read failed are left out and the others are returned in
\* declared order.
C30_SparseSkipsFailedReads ==
    (rpc = "returned" /\ rrep.mode = "sparse") =>
        /\ rrep.kind = "returned" /\ rrep.error = ""
        /\ Len(rreads) = Len(rp)
        /\ rrep.registers = ReadRegs(1)

\* ======================================================== _ensure_svd claims
\* C31: a session's database is built at most once, every call that returns
\* a database returns the one stored on the session, and a failed build
\* stores nothing.
C31_BuiltAtMostOnce ==
    \A s \in Sids :
        /\ ebuilds[s] <= 1
        /\ \A t \in Threads :
              (epc[t] = "returned" /\ edb[t].sid = s /\ edb[t].db > 0) => edb[t].db = svd[s]
        /\ svd[s] # -1

====
